---- MODULE Spec2Model ----
(***************************************************************************)
(* Model of AdvancedHTMLStripper (src/src/utils/advanced_html_stripper.py):*)
(* the per-carrier strip functions: tile location, identity-key            *)
(* deduplication, normalization, minimal-markup rendering and statistics;  *)
(* of the carrier loop of UnifiedPipeline (src/src/unified_pipeline.py)    *)
(* and of the retry wrapper of ClaudePlanExtractor                         *)
(* (src/src/llm_plan_extractor_claude.py).                                 *)
(*                                                                         *)
(* Representation.                                                         *)
(*  - A text is a sequence of tokens.  A token is a maximal run of digits, *)
(*    a single punctuation character, a single blank, or a word/phrase.    *)
(*    The regular expressions of the source are matched token by token.    *)
(*  - An element is [tag, attrs, text]; a node is [tag, attrs, kids] with  *)
(*    kids a sequence of elements (and, for a group node, sub: the nodes   *)
(*    nested in it).  A document (html_content parsed by BeautifulSoup) is *)
(*    a sequence of nodes.  Sibling elements are separated by white space  *)
(*    in the markup, so get_text() of a node is the texts of its kids      *)
(*    joined by a blank.                                                   *)
(***************************************************************************)
EXTENDS Integers, Sequences, FiniteSets, TLC

VARIABLES pc, carrier, html_content, soup, plan_tiles, unique_plans,
          normalized_plans, result, raised, steps, history,
          pipeline, extractor

\* the state of a call of a strip function
stripper == <<pc, carrier, html_content, soup, plan_tiles, unique_plans,
              normalized_plans, result, raised, steps, history>>

vars == <<pc, carrier, html_content, soup, plan_tiles, unique_plans,
          normalized_plans, result, raised, steps, history, pipeline, extractor>>

(***************************************************************************)
(* Bounds of the model.                                                    *)
(***************************************************************************)
MaxNodes == 3

(***************************************************************************)
(* Tokens and texts.                                                       *)
(***************************************************************************)
Digits == {"0", "00", "5", "10", "34", "45", "50", "60", "70", "75", "85", "100"}

IsDigits(t) == t \in Digits

Unknown == <<"unknown">>

NoText == <<>>

\* s[i], or "" outside the text
Tok(s, i) == IF i \in 1..Len(s) THEN s[i] ELSE ""

\* number of characters of a token
CharLen(t) ==
  CASE t \in {"$", ".", "/", " ", "0", "5", "?", "|", "-", "&", ",", ":"} -> 1
    [] t \in {"00", "10", "34", "45", "50", "60", "70", "75", "85", "GB", "MB", "mo", "5G", "4G", "gb", "at"} -> 2
    [] t \in {"100", "per", "5G+", "and", "pay", "use", "Get"} -> 3
    [] t \in {"Plan", "BYOP", "Talk", "text", "Text", "data", "more", "lock"} -> 4
    [] t \in {"month", "Basic", "after", "Speed", "speed", "Price", "price", "Bonus", "bonus", "offer"} -> 5
    [] t \in {"Popular", "Unknown", "unknown", "Autopay", "autopay"} -> 7
    [] t \in {"Features", "features", "auto-pay", "Complete", "discount"} -> 8
    [] t \in {"Unlimited", "unlimited", "plan-card"} -> 9
    [] t \in {"Essentials", "essentials"} -> 10
    [] t \in {"Are you a new customer", "are you a new customer"} -> 22
    [] t \in {"Canada Wide Plans", "All plans include"} -> 17
    [] t = "Starter Plans" -> 13
    [] t = "lorem ipsum" -> 120
    [] OTHER -> 6

RECURSIVE TextLen(_)
TextLen(s) == IF s = <<>> THEN 0 ELSE CharLen(Head(s)) + TextLen(Tail(s))

\* str.lower() of a token
LowerTok(t) ==
  CASE t = "Essentials" -> "essentials"
    [] t = "Popular" -> "popular"
    [] t = "Features" -> "features"
    [] t = "Unlimited" -> "unlimited"
    [] t = "Basic" -> "basic"
    [] t = "Talk" -> "talk"
    [] t = "Speed" -> "speed"
    [] t = "Text" -> "text"
    [] t = "Plan" -> "plan"
    [] t = "BYOP" -> "byop"
    [] t = "GB" -> "gb"
    [] t = "MB" -> "mb"
    [] t = "Unknown" -> "unknown"
    [] t = "Price" -> "price"
    [] t = "Bonus" -> "bonus"
    [] t = "Autopay" -> "autopay"
    [] t = "Are you a new customer" -> "are you a new customer"
    [] t = "Canada Wide Plans" -> "canada wide plans"
    [] t = "Starter Plans" -> "starter plans"
    [] OTHER -> t

Lower(s) == [i \in 1..Len(s) |-> LowerTok(s[i])]

\* text[0].isupper()
StartsUpper(s) == s # <<>> /\ LowerTok(s[1]) # s[1]

\* len(text.split()): the words of a text are separated by single blanks
WordCount(s) ==
  IF s = <<>> THEN 0 ELSE 1 + Cardinality({i \in 1..Len(s) : s[i] = " "})

HasTok(s, t) == \E i \in 1..Len(s) : s[i] = t

\* 'per mo' in text.lower()   ("per month" contains it too)
HasPerMo(s) ==
  \E i \in 1..Len(s) :
    LowerTok(s[i]) = "per" /\ Tok(s, i + 1) = " " /\ LowerTok(Tok(s, i + 2)) \in {"mo", "month"}

\* '/mo' in text.lower()
HasSlashMo(s) ==
  \E i \in 1..Len(s) : s[i] = "/" /\ LowerTok(Tok(s, i + 1)) \in {"mo", "month"}

Min(S) == CHOOSE x \in S : \A y \in S : x <= y

\* the texts of the elements es joined by one blank (get_text of their parent)
RECURSIVE JoinTexts(_)
JoinTexts(es) ==
  IF es = <<>> THEN <<>>
  ELSE IF Len(es) = 1 THEN es[1].text
  ELSE es[1].text \o <<" ">> \o JoinTexts(Tail(es))

Attr(n, a) == IF a \in DOMAIN n.attrs THEN n.attrs[a] ELSE ""

\* s.strip()
RECURSIVE Strip(_)
Strip(s) ==
  IF s = <<>> THEN s
  ELSE IF Head(s) = " " THEN Strip(Tail(s))
  ELSE IF s[Len(s)] = " " THEN Strip(SubSeq(s, 1, Len(s) - 1))
  ELSE s

\* re.sub(r'\s+', ' ', str(feature)).strip(): runs of blanks become one blank
RECURSIVE Squeeze(_)
Squeeze(s) ==
  IF s = <<>> THEN <<>>
  ELSE IF Head(s) = " " /\ Tok(s, 2) = " " THEN Squeeze(Tail(s))
  ELSE <<Head(s)>> \o Squeeze(Tail(s))

\* the elements of kids that satisfy P, in document order
SelectKids(kids, P(_)) == SelectSeq(kids, P)

\* index of the first kid satisfying P, 0 if none  (tile.find(...))
FindKid(kids, P(_)) ==
  LET I == {i \in 1..Len(kids) : P(kids[i])} IN IF I = {} THEN 0 ELSE Min(I)

(***************************************************************************)
(* Regular expressions shared by the carriers.                             *)
(***************************************************************************)
\* r'\$\d+(?:\.\d+)?' matched at position i: index of its last token, 0 if none
DollarAmountEnd(s, i) ==
  IF Tok(s, i) = "$" /\ IsDigits(Tok(s, i + 1))
  THEN IF Tok(s, i + 2) = "." /\ IsDigits(Tok(s, i + 3)) THEN i + 3 ELSE i + 1
  ELSE 0

\* re.search(r'\$\d+(?:\.\d+)?', s): start of the leftmost match, 0 if none
DollarAmountStart(s) ==
  LET I == {i \in 1..Len(s) : DollarAmountEnd(s, i) # 0} IN IF I = {} THEN 0 ELSE Min(I)

\* the matched text of re.search(r'\$\d+(?:\.\d+)?', s), NoText if none
DollarAmount(s) ==
  LET i == DollarAmountStart(s) IN
  IF i = 0 THEN NoText ELSE SubSeq(s, i, DollarAmountEnd(s, i))

\* r'\d+\s*GB' matched at i (re.I): index of its last token, 0 if none
GbEnd(s, i) ==
  IF IsDigits(Tok(s, i))
  THEN IF LowerTok(Tok(s, i + 1)) = "gb" THEN i + 1
       ELSE IF Tok(s, i + 1) = " " /\ LowerTok(Tok(s, i + 2)) = "gb" THEN i + 2 ELSE 0
  ELSE 0

\* re.search(r'(\d+)\s*GB', s, re.I).group(0), NoText if none
GbAmount(s) ==
  LET I == {i \in 1..Len(s) : GbEnd(s, i) # 0} IN
  IF I = {} THEN NoText ELSE SubSeq(s, Min(I), GbEnd(s, Min(I)))

\* r'\d+\s*(GB|MB)' matched at i (re.I)
GbMbEnd(s, i) ==
  IF IsDigits(Tok(s, i))
  THEN IF LowerTok(Tok(s, i + 1)) \in {"gb", "mb"} THEN i + 1
       ELSE IF Tok(s, i + 1) = " " /\ LowerTok(Tok(s, i + 2)) \in {"gb", "mb"} THEN i + 2 ELSE 0
  ELSE 0

\* re.search(r'(\d+)\s*(GB|MB)', s, re.I).group(0), NoText if none
GbMbAmount(s) ==
  LET I == {i \in 1..Len(s) : GbMbEnd(s, i) # 0} IN
  IF I = {} THEN NoText ELSE SubSeq(s, Min(I), GbMbEnd(s, Min(I)))

\* re.search(r'(\d+\s*GB|Unlimited)', s, re.I).group(1), NoText if none
GbOrUnlimited(s) ==
  LET I == {i \in 1..Len(s) : GbEnd(s, i) # 0 \/ LowerTok(s[i]) = "unlimited"} IN
  IF I = {} THEN NoText
  ELSE IF GbEnd(s, Min(I)) # 0 THEN SubSeq(s, Min(I), GbEnd(s, Min(I)))
  ELSE <<s[Min(I)]>>

\* what a normalize function returns for None
NoPlan == [none |-> TRUE]

\* f"{a}|{b}|{c}"
Key3(a, b, c) == a \o <<"|">> \o b \o <<"|">> \o c

(***************************************************************************)
(* The shared first-occurrence loop of the deduplication passes:           *)
(*   if key not in seen_keys: seen_keys[key] = True; unique.append(...)    *)
(* keys[i] is the key of candidate i, or Skip when the loop `continue`s    *)
(* before building a key.  The result lists the kept candidates' indices.  *)
(***************************************************************************)
Skip == <<"<skip>">>

\* a deduplication loop that lets a later candidate replace an earlier one
LastOccurrences(keys, i, seen_keys, unique) ==
  SelectSeq([k \in 1..Len(keys) |-> k],
            LAMBDA k : keys[k] # Skip /\ \A j \in (k + 1)..Len(keys) : keys[j] # keys[k])

RECURSIVE FirstOccurrences(_, _, _, _)
FirstOccurrences(keys, i, seen_keys, unique) ==
  IF i > Len(keys) THEN unique
  ELSE IF keys[i] = Skip THEN FirstOccurrences(keys, i + 1, seen_keys, unique)
  ELSE IF keys[i] \notin seen_keys
       THEN FirstOccurrences(keys, i + 1, seen_keys \cup {keys[i]}, Append(unique, i))
       ELSE FirstOccurrences(keys, i + 1, seen_keys, unique)

(***************************************************************************)
(* Rogers (tile-class based).                                              *)
(***************************************************************************)
rogers_labels ==
  {<<"features">>, <<"plan", " ", "perks">>, <<"after", " ", "auto-pay">>,
   <<"price", " ", "before", " ", "incentives">>}

\* the test of lines 98-120 / 206-220 on the text of one <p>
rogers_is_name(text) ==
  /\ text # <<>> /\ TextLen(text) >= 2
  /\ Lower(text) \notin rogers_labels
  /\ ~HasTok(text, "$")
  /\ ~HasPerMo(text) /\ ~HasSlashMo(text)
  /\ StartsUpper(text) /\ TextLen(text) < 50
  /\ WordCount(text) <= 3

IsP(e) == e.tag = "p"
IsSpan(e) == e.tag = "span"
IsLi(e) == e.tag = "li"
IsH3(e) == e.tag = "h3"
IsS(e) == e.tag = "s"

\* kw in token.lower(), kw one word of a keyword
TokenHas(t, kw) ==
  CASE kw = "5g" -> t \in {"5G", "5G+", "5g"}
    [] kw = "feature" -> LowerTok(t) \in {"feature", "features"}
    [] kw = "mo" -> LowerTok(t) \in {"mo", "month", "more"}
    [] OTHER -> LowerTok(t) = kw

\* keyword in text.lower(); a keyword is a sequence of words and blanks
HasKeyword(s, kw) ==
  \E i \in 1..Len(s) : \A k \in 1..Len(kw) : TokenHas(Tok(s, i + k - 1), kw[k])

\* any(keyword in text.lower() for keyword in keywords)
AnyKeyword(s, keywords) == \E kw \in keywords : HasKeyword(s, kw)

\* values[:n]
Prefix(values, n) == SubSeq(values, 1, IF Len(values) < n THEN Len(values) ELSE n)

\* the texts of the li elements of a tile, in document order.  The li kids
\* of a node are the items of the one ul of the tile.
ItemTexts(kids) == [k \in 1..Len(SelectSeq(kids, IsLi)) |-> SelectSeq(kids, IsLi)[k].text]

\* "if value and value not in seen: deduped.append(value)"
Dedupe(values) ==
  LET K == SelectSeq([k \in 1..Len(values) |-> k],
                     LAMBDA k : values[k] # NoText /\ \A j \in 1..(k - 1) : values[j] # values[k])
  IN [i \in 1..Len(K) |-> values[K[i]]]

\* re.sub(r'\d+$', '', text).strip()
DropTrailingDigits(s) ==
  IF s # <<>> /\ IsDigits(s[Len(s)]) THEN Strip(SubSeq(s, 1, Len(s) - 1)) ELSE Strip(s)

\* re.sub(r'^\s*[•\-\*]\s*', '', text)
DropBullet(s) == IF Tok(Strip(s), 1) = "-" THEN Strip(Tail(Strip(s))) ELSE s

\* first meaningful <p> of the tile, NoText if none
rogers_plan_name(tile) ==
  LET ps == SelectKids(tile.kids, IsP)
      I == {i \in 1..Len(ps) : rogers_is_name(ps[i].text)}
  IN IF I = {} THEN NoText ELSE ps[Min(I)].text

\* tile.find('ds-price') or tile.find(class_=re.compile('price', re.I))
IsDsPrice(e) == e.tag = "ds-price"
IsPriceClass(e) == Attr(e, "class") \in {"price", "ds-price"}

rogers_ds_price(tile) ==
  IF FindKid(tile.kids, IsDsPrice) # 0 THEN FindKid(tile.kids, IsDsPrice)
  ELSE FindKid(tile.kids, IsPriceClass)

extract_price(tile) ==
  LET d == rogers_ds_price(tile)
      spans == SelectKids(tile.kids, IsSpan)
      I == {i \in 1..Len(spans) :
              HasPerMo(spans[i].text) /\ DollarAmount(spans[i].text) # NoText}
  IN IF d # 0 /\ DollarAmount(tile.kids[d].text) # NoText
     THEN DollarAmount(tile.kids[d].text)
     ELSE IF I # {} THEN DollarAmount(spans[Min(I)].text)
     ELSE Unknown

extract_data_amount(tile) ==
  LET lis == SelectKids(tile.kids, IsLi)
      I == {i \in 1..Len(lis) : GbOrUnlimited(lis[i].text) # NoText}
  IN IF I = {} THEN Unknown ELSE GbOrUnlimited(lis[Min(I)].text)

\* r'\$\d+(?:\.\d+)?(?:\s*per\s*mo|\s*/mo)?' (re.I): group(0).strip()
rogers_price_with_qualifier(s) ==
  LET i == DollarAmountStart(s)
      e == DollarAmountEnd(s, i)
      k == IF Tok(s, e + 1) = " " THEN e + 2 ELSE e + 1
      amount == SubSeq(s, i, e)
      blank == SubSeq(s, e + 1, k - 1)
  IN IF i = 0 THEN NoText
     ELSE IF LowerTok(Tok(s, k)) = "per" /\ LowerTok(Tok(s, k + 1)) \in {"mo", "month"}
          THEN amount \o blank \o <<s[k], "mo">>
     ELSE IF LowerTok(Tok(s, k)) = "per" /\ Tok(s, k + 1) = " "
             /\ LowerTok(Tok(s, k + 2)) \in {"mo", "month"}
          THEN amount \o blank \o <<s[k], " ", "mo">>
     ELSE IF Tok(s, k) = "/" /\ LowerTok(Tok(s, k + 1)) \in {"mo", "month"}
          THEN amount \o blank \o <<"/", "mo">>
     ELSE amount

extract_final_price(tile) ==
  LET d == rogers_ds_price(tile)
      spans == SelectKids(tile.kids, IsSpan)
      I == {i \in 1..Len(spans) :
              /\ HasPerMo(spans[i].text) \/ HasSlashMo(spans[i].text)
              /\ DollarAmount(spans[i].text) # NoText}
  IN IF d # 0 /\ rogers_price_with_qualifier(tile.kids[d].text) # NoText
     THEN rogers_price_with_qualifier(tile.kids[d].text)
     ELSE IF I # {} THEN DollarAmount(spans[Min(I)].text) \o <<"/", "mo">>
     ELSE Unknown

rogers_key(tile) ==
  IF rogers_plan_name(tile) = NoText THEN Skip
  ELSE Key3(rogers_plan_name(tile), extract_price(tile), extract_data_amount(tile))

deduplicate_plans(tiles) ==
  FirstOccurrences([i \in 1..Len(tiles) |-> rogers_key(tiles[i])], 1, {}, <<>>)

\* lines 286-305: the ul after a sibling whose text mentions features, else
\* the first ul with more than two items
has_features_section(tile) ==
  LET first == FindKid(tile.kids, IsLi) IN
  /\ first # 0
  /\ \/ \E k \in 1..(first - 1) : HasKeyword(tile.kids[k].text, <<"feature">>)
     \/ Len(SelectSeq(tile.kids, IsLi)) > 2

\* lines 313-329: one item of the features section, NoText when it is skipped
rogers_feature_text(text) ==
  IF text = NoText \/ Lower(text) \in {<<"features">>, <<"feature">>} \/ TextLen(text) < 3
  THEN NoText
  ELSE IF TextLen(Strip(Squeeze(DropBullet(DropTrailingDigits(text))))) > 3
       THEN Strip(Squeeze(DropBullet(DropTrailingDigits(text))))
       ELSE NoText

\* _extract_features: "if text ... and text not in features: features.append(text)"
extract_features(tile) ==
  IF ~has_features_section(tile) THEN <<>>
  ELSE Dedupe([k \in 1..Len(ItemTexts(tile.kids)) |->
                 rogers_feature_text(ItemTexts(tile.kids)[k])])

rogers_discount_keywords ==
  {<<"discount">>, <<"savings">>, <<"price", " ", "lock">>, <<"bundle">>, <<"family">>,
   <<"per", " ", "line">>}

normalize_plan(tile) ==
  [name |-> IF rogers_plan_name(tile) = NoText THEN <<"Unknown">> ELSE rogers_plan_name(tile),
   price |-> extract_final_price(tile),
   data |-> extract_data_amount(tile),
   features |-> <<>>,
   discounts |-> Prefix(SelectSeq(extract_features(tile),
                                  LAMBDA f : AnyKeyword(f, rogers_discount_keywords)), 10),
   promotions |-> <<>>]

(***************************************************************************)
(* Telus (attribute-convention based).                                     *)
(***************************************************************************)
telus_labels ==
  {<<"features">>, <<"unlock", " ", "these", " ", "offers">>, <<"mobility", " ", "plans">>,
   <<"talk", " ", "&", " ", "text">>}

\* the test of lines 596-609 on the text of one <p>
telus_is_name(text) ==
  /\ text # <<>> /\ TextLen(text) >= 2
  /\ ~HasTok(text, "$") /\ ~HasPerMo(text) /\ ~HasSlashMo(text)
  /\ Lower(text) \notin telus_labels
  /\ StartsUpper(text) /\ TextLen(text) < 50 /\ WordCount(text) <= 5

\* the name the deduplication pass reads: the <h3>, else a <p> heuristic
telus_dedup_name(tile) ==
  LET h == FindKid(tile.kids, IsH3)
      ps == SelectKids(tile.kids, IsP)
      I == {i \in 1..Len(ps) : telus_is_name(ps[i].text)}
  IN IF h # 0 /\ tile.kids[h].text # NoText THEN tile.kids[h].text
     ELSE IF I # {} THEN ps[Min(I)].text
     ELSE NoText

IsPriceLockup(e) == Attr(e, "data_testid") = "plan-price-lockup"
IsDataBucketAmount(e) == Attr(e, "data_testid") = "mfe-rate-plan-data-bucket-amount"
IsDataBucketSpeed(e) == Attr(e, "data_testid") = "mfe-rate-plan-data-bucket-speed"

\* r'\$\d+(?:\.\d+)?(?:\s+per\s+month|\s+/mo)?' (re.I), then
\* .replace(' per month', '/mo').replace(' /mo', '/mo')
telus_price_pattern(s) ==
  LET i == DollarAmountStart(s)
      e == DollarAmountEnd(s, i)
      amount == SubSeq(s, i, e)
  IN IF i = 0 THEN NoText
     ELSE IF Tok(s, e + 1) = " " /\ Tok(s, e + 2) = "per" /\ Tok(s, e + 3) = " "
             /\ Tok(s, e + 4) = "month"
          THEN amount \o <<"/", "mo">>
     ELSE IF Tok(s, e + 1) = " " /\ Tok(s, e + 2) = "/" /\ Tok(s, e + 3) = "mo"
          THEN amount \o <<"/", "mo">>
     ELSE amount

extract_telus_price(tile) ==
  LET l == FindKid(tile.kids, IsPriceLockup)
      text == JoinTexts(tile.kids)
  IN IF l # 0 /\ DollarAmount(tile.kids[l].text) # NoText
     THEN DollarAmount(tile.kids[l].text)
     ELSE IF telus_price_pattern(text) # NoText THEN telus_price_pattern(text)
     ELSE Unknown

\* str.isdigit()
IsDigitText(s) == Len(s) = 1 /\ IsDigits(s[1])

\* r'(\d+\s*GB(?:\s+at\s+\d+G(?:\+)?\s+Speed)?|Unlimited)' (re.I): group(1)
GbSpeedOrUnlimited(s) ==
  LET I == {i \in 1..Len(s) : GbEnd(s, i) # 0 \/ LowerTok(s[i]) = "unlimited"}
      i == Min(I)
      e == GbEnd(s, i)
  IN IF I = {} THEN NoText
     ELSE IF e = 0 THEN <<s[i]>>
     ELSE IF Tok(s, e + 1) = " " /\ LowerTok(Tok(s, e + 2)) = "at" /\ Tok(s, e + 3) = " "
             /\ Tok(s, e + 4) \in {"4G", "5G", "5G+"} /\ Tok(s, e + 5) = " "
             /\ LowerTok(Tok(s, e + 6)) = "speed"
          THEN SubSeq(s, i, e + 6)
     ELSE SubSeq(s, i, e)

extract_telus_data(tile) ==
  LET b == FindKid(tile.kids, IsDataBucketAmount)
      sp == FindKid(tile.kids, IsDataBucketSpeed)
      text == JoinTexts(tile.kids)
  IN IF b # 0
     THEN LET data_text == tile.kids[b].text IN
          IF sp # 0
          THEN IF HasTok(tile.kids[sp].text, "GB") THEN data_text \o <<" ", "GB">>
               ELSE data_text \o <<" ">> \o tile.kids[sp].text
          ELSE IF IsDigitText(data_text) THEN data_text \o <<" ", "GB">> ELSE data_text
     ELSE IF GbSpeedOrUnlimited(text) # NoText THEN GbSpeedOrUnlimited(text)
     ELSE Unknown

telus_key(tile) ==
  IF telus_dedup_name(tile) = NoText THEN Skip
  ELSE Key3(telus_dedup_name(tile), extract_telus_price(tile), extract_telus_data(tile))

deduplicate_telus_plans(tiles) ==
  FirstOccurrences([i \in 1..Len(tiles) |-> telus_key(tiles[i])], 1, {}, <<>>)

telus_feature_keywords ==
  {<<"discount">>, <<"price", " ", "lock">>, <<"per", " ", "line">>, <<"bundle">>,
   <<"easy", " ", "roam">>}

\* lines 760-764: every eligible li text is appended
telus_features(tile) ==
  SelectSeq(ItemTexts(tile.kids),
            LAMBDA text : TextLen(text) > 8 /\ AnyKeyword(text, telus_feature_keywords))

IsPromotionText(e) ==
  Attr(e, "data_testid") \in {"promotion-callout-legal-text", "promotion-benefit-text"}

telus_discount_keywords ==
  {<<"discount">>, <<"savings">>, <<"price", " ", "lock">>, <<"per", " ", "line">>,
   <<"family">>}

\* _extract_telus_discount_texts: the promotion elements, then every string
\* of the tile that mentions a discount, without repetitions
extract_telus_discount_texts(tile) ==
  Prefix(Dedupe([k \in 1..Len(SelectSeq(tile.kids, IsPromotionText)) |->
                   SelectSeq(tile.kids, IsPromotionText)[k].text]
                \o SelectSeq([k \in 1..Len(tile.kids) |-> tile.kids[k].text],
                             LAMBDA text : TextLen(text) >= 6
                                           /\ AnyKeyword(text, telus_discount_keywords))), 10)

\* the promotions and the ribbon (regular expressions over the whole text
\* of the tile) are not part of the model
normalize_telus_plan(tile) ==
  LET h == FindKid(tile.kids, IsH3) IN
  [name |-> IF h # 0 THEN tile.kids[h].text ELSE <<"Unknown">>,
   price |-> extract_telus_price(tile),
   data |-> extract_telus_data(tile),
   features |-> Prefix(telus_features(tile), 10),
   discounts |-> extract_telus_discount_texts(tile)]

(***************************************************************************)
(* Bell (container-id based).                                              *)
(***************************************************************************)
\* a price pattern that stops at the whole dollars
WholeDollarsEnd(s, i) ==
  LET d == IF Tok(s, i + 1) = " " THEN i + 2 ELSE i + 1 IN
  IF Tok(s, i) = "$" /\ IsDigits(Tok(s, d)) THEN d ELSE 0

\* r'\$\s*\d+(?:\.\d+)?' matched at i: index of its last token, 0 if none
SpacedAmountEnd(s, i) ==
  LET d == IF Tok(s, i + 1) = " " THEN i + 2 ELSE i + 1 IN
  IF Tok(s, i) = "$" /\ IsDigits(Tok(s, d))
  THEN IF Tok(s, d + 1) = "." /\ IsDigits(Tok(s, d + 2)) THEN d + 2 ELSE d
  ELSE 0

\* the match of r'\$\s*\d+(?:\.\d+)?' at i with its white space removed
SpacedAmountAt(s, i) ==
  LET d == IF Tok(s, i + 1) = " " THEN i + 2 ELSE i + 1 IN
  <<"$">> \o SubSeq(s, d, SpacedAmountEnd(s, i))

\* the skip keywords of lines 955-956, as they occur in the vocabulary
bell_skip_phrases == {"are you a new customer", "change"}

bell_plan_name(container) ==
  LET h == FindKid(container.kids, IsH3) IN
  IF h # 0 THEN container.kids[h].text ELSE <<"Unknown">>

\* not plan_name or len(plan_name) > 50 or '?' in plan_name
bell_bad_name(name) == name = NoText \/ TextLen(name) > 50 \/ HasTok(name, "?")

bell_dedup_price(container) ==
  LET text == JoinTexts(container.kids)
      I == {i \in 1..Len(text) : SpacedAmountEnd(text, i) # 0}
  IN IF I = {} THEN Unknown ELSE SpacedAmountAt(text, Min(I))

bell_data(container) ==
  IF GbAmount(JoinTexts(container.kids)) = NoText THEN Unknown
  ELSE GbAmount(JoinTexts(container.kids))

\* a variant that skips the names with a '?' and no other
bell_key_of_any_phrase(container) ==
  LET name == bell_plan_name(container) IN
  IF bell_bad_name(name) THEN Skip
  ELSE Key3(name, bell_dedup_price(container), bell_data(container))

bell_key(container) ==
  LET name == bell_plan_name(container) IN
  IF bell_bad_name(name) THEN Skip
  ELSE IF \E i \in 1..Len(name) : LowerTok(name[i]) \in bell_skip_phrases THEN Skip
  ELSE Key3(name, bell_dedup_price(container), bell_data(container))

deduplicate_bell_plans(containers) ==
  FirstOccurrences([i \in 1..Len(containers) |-> bell_key(containers[i])], 1, {}, <<>>)

\* r'\$\s*(\d+(?:\.\d+)?)(?:\s*/?\s*mo\.?|\s+per month)' (re.I) matched at i
bell_price_context_at(s, i) ==
  LET e == SpacedAmountEnd(s, i)
      a == IF Tok(s, e + 1) = " " THEN e + 2 ELSE e + 1
      b == IF Tok(s, a) = "/" THEN a + 1 ELSE a
      c == IF Tok(s, b) = " " THEN b + 1 ELSE b
  IN e # 0
     /\ \/ LowerTok(Tok(s, c)) \in {"mo", "month"}
        \/ Tok(s, e + 1) = " " /\ LowerTok(Tok(s, e + 2)) = "per" /\ Tok(s, e + 3) = " "
             /\ LowerTok(Tok(s, e + 4)) = "month"

bell_primary_price(container) ==
  LET text == JoinTexts(container.kids)
      C == {i \in 1..Len(text) : bell_price_context_at(text, i)}
      A == {i \in 1..Len(text) :
              /\ SpacedAmountEnd(text, i) # 0
              /\ SpacedAmountAt(text, i) \notin {<<"$", "0">>, <<"$", "0", ".", "00">>}}
  IN IF C # {} THEN SpacedAmountAt(text, Min(C))
     ELSE IF A # {} THEN SpacedAmountAt(text, Min(A))
     ELSE Unknown

bell_regular_price(container) ==
  LET st == FindKid(container.kids, IsS) IN
  IF st = 0 THEN NoText ELSE DollarAmount(container.kids[st].text)

\* re.sub(r'\s*\b\d+\s*$', '', snippet).strip(): digits that end the text
\* and do not continue a word
DropTrailingNumber(s) ==
  IF s # <<>> /\ IsDigits(s[Len(s)])
     /\ Tok(s, Len(s) - 1) \in {"", " ", "$", ".", "/", "-", "&", ",", ":", "?", "|"}
  THEN Strip(SubSeq(s, 1, Len(s) - 1))
  ELSE Strip(s)

\* _clean_text: blanks collapsed, the word "footnote" removed
clean_text(value) ==
  Strip(Squeeze(SelectSeq(Strip(Squeeze(value)), LAMBDA t : LowerTok(t) # "footnote")))

\* lines 1043-1050: the snippet of one li
bell_snippet(text) == clean_text(DropTrailingNumber(Squeeze(text)))

\* the snippets of the li elements, without the empty ones
bell_snippets(container) ==
  SelectSeq([k \in 1..Len(ItemTexts(container.kids)) |->
               bell_snippet(ItemTexts(container.kids)[k])],
            LAMBDA snippet : snippet # NoText)

bell_promotion_keywords ==
  {<<"offer">>, <<"bonus">>, <<"included">>, <<"price", " ", "lock">>, <<"perplexity">>,
   <<"promo">>, <<"credit">>, <<"bundle">>}

bell_discount_keywords ==
  {<<"discount">>, <<"price", " ", "lock">>, <<"bundle">>, <<"per", " ", "line">>,
   <<"savings">>, <<"credit">>, <<"autopay">>}

IsCaption(e) == Attr(e, "class") = "g-card-plan__caption"

\* the non-empty caption texts, cleaned
bell_captions(container) ==
  SelectSeq([k \in 1..Len(SelectSeq(container.kids, IsCaption)) |->
               clean_text(SelectSeq(container.kids, IsCaption)[k].text)],
            LAMBDA text : text # NoText)

\* lines 1051-1052: every snippet is a feature
bell_feature_texts(container) == Dedupe(bell_snippets(container))

\* lines 1058-1059 and 1083-1084: the snippets with a promotion keyword, then
\* the captions without a discount keyword
bell_promotion_texts(container) ==
  Dedupe(SelectSeq(bell_snippets(container),
                   LAMBDA snippet : AnyKeyword(snippet, bell_promotion_keywords))
         \o SelectSeq(bell_captions(container),
                      LAMBDA text : ~AnyKeyword(text, bell_discount_keywords)))

\* lines 1062-1082: the li texts with a discount keyword (none when the list
\* is the "All plans include" list), then the captions with one
bell_discounts(container) ==
  Dedupe((IF HasTok(JoinTexts(SelectSeq(container.kids, IsLi)), "All plans include")
          THEN <<>>
          ELSE SelectSeq([k \in 1..Len(ItemTexts(container.kids)) |->
                            clean_text(ItemTexts(container.kids)[k])],
                         LAMBDA snippet : AnyKeyword(snippet, bell_discount_keywords)))
         \o SelectSeq(bell_captions(container),
                      LAMBDA text : AnyKeyword(text, bell_discount_keywords)))

\* the first snippet with one of the keywords, NoText for None
first_snippet_with(container, keywords) ==
  LET S == SelectSeq(bell_snippets(container), LAMBDA snippet : AnyKeyword(snippet, keywords))
  IN IF S = <<>> THEN NoText ELSE S[1]

normalize_bell_plan(container) ==
  IF bell_bad_name(bell_plan_name(container)) THEN NoPlan
  ELSE [name |-> bell_plan_name(container),
        price |-> bell_primary_price(container),
        regular_price |-> bell_regular_price(container),
        data |-> bell_data(container),
        network |-> first_snippet_with(container, {<<"5g">>, <<"lte">>, <<"network">>}),
        roaming |-> first_snippet_with(container, {<<"roam">>}),
        features |-> Prefix(bell_feature_texts(container), 12),
        discounts |-> Prefix(bell_discounts(container), 10),
        promotions |-> Prefix(bell_promotion_texts(container), 5)]

(***************************************************************************)
(* Freedom (component-marker based).                                       *)
(***************************************************************************)
\* the part of a data-testid after "plan-card-", as tokens
plan_card_tokens(testid) ==
  CASE testid = "plan-card-10gb-5g" -> <<"10", "gb", "-", "5g">>
    [] testid = "plan-card-10gb" -> <<"10", "gb">>
    [] testid = "plan-card-basic" -> <<"basic">>
    [] OTHER -> <<>>

IsPlanCard(e) == plan_card_tokens(Attr(e, "data_testid")) # <<>>

IsHeading(e) == e.tag \in {"h1", "h2", "h3", "h4", "h5", "h6"}

UpperTok(t) ==
  CASE t = "gb" -> "GB" [] t = "mb" -> "MB" [] t = "5g" -> "5G" [] t = "4g" -> "4G"
    [] t = "lte" -> "LTE" [] t = "basic" -> "Basic" [] OTHER -> t

\* lines 1236-1266: "plan-card-10gb-5g" -> "10GB 5G+", else the title-cased rest
freedom_card_name(container, card) ==
  LET t == plan_card_tokens(Attr(card, "data_testid"))
      n == IF Tok(t, 3) = "-" THEN Tok(t, 4) ELSE Tok(t, 3)
      text == JoinTexts(container.kids)
      network ==
        IF n \in {"5g", "5g+", "4g", "lte"}
        THEN (IF UpperTok(n) = "5G" THEN "5G+" ELSE UpperTok(n))
        ELSE IF \E i \in 1..Len(text) : LowerTok(text[i]) \in {"5g", "5g+"} THEN "5G+"
        ELSE IF \E i \in 1..Len(text) : LowerTok(text[i]) \in {"4g", "lte"} THEN "4G LTE"
        ELSE ""
  IN IF IsDigits(Tok(t, 1)) /\ Tok(t, 2) \in {"gb", "mb"}
     THEN IF network # "" THEN <<t[1], UpperTok(t[2]), " ", network>>
          ELSE <<t[1], UpperTok(t[2])>>
     ELSE <<UpperTok(t[1])>>

freedom_heading_ok(text) ==
  text # NoText /\ TextLen(text) < 50
  /\ Lower(text) \notin {<<"features">>, <<"promotions">>, <<"roaming">>}

\* the name both passes read, before the check of its absence or length
freedom_plan_name(container) ==
  LET c == FindKid(container.kids, IsPlanCard)
      hs == SelectKids(container.kids, IsHeading)
      I == {i \in 1..Len(hs) : freedom_heading_ok(hs[i].text)}
  IN IF "aria_label" \in DOMAIN container.attrs /\ container.attrs.aria_label # NoText
     THEN container.attrs.aria_label
     ELSE IF c # 0 THEN freedom_card_name(container, container.kids[c])
     ELSE IF I # {} THEN hs[Min(I)].text
     ELSE NoText

\* a variant that requires the '$': r'\$(\d+(?:\.\d+)?)\s*(?:/|per)\s*mo(?:nth)?'
dollar_monthly_at(s, i) ==
  LET d == i + 1
      e == IF Tok(s, d + 1) = "." /\ IsDigits(Tok(s, d + 2)) THEN d + 2 ELSE d
      a == IF Tok(s, e + 1) = " " THEN e + 2 ELSE e + 1
      b == IF Tok(s, a + 1) = " " THEN a + 2 ELSE a + 1
  IN IF Tok(s, i) = "$" /\ IsDigits(Tok(s, d)) /\ LowerTok(Tok(s, a)) \in {"/", "per"}
        /\ LowerTok(Tok(s, b)) \in {"mo", "month"}
     THEN d ELSE 0

\* r'\$?(\d+(?:\.\d+)?)\s*(?:/|per)\s*mo(?:nth)?' (re.I) matched at i:
\* the index of the first token of group(1), 0 if no match at i
freedom_monthly_at(s, i) ==
  LET d == IF Tok(s, i) = "$" THEN i + 1 ELSE i
      e == IF Tok(s, d + 1) = "." /\ IsDigits(Tok(s, d + 2)) THEN d + 2 ELSE d
      a == IF Tok(s, e + 1) = " " THEN e + 2 ELSE e + 1
      b == IF Tok(s, a + 1) = " " THEN a + 2 ELSE a + 1
  IN IF IsDigits(Tok(s, d)) /\ LowerTok(Tok(s, a)) \in {"/", "per"}
        /\ LowerTok(Tok(s, b)) \in {"mo", "month"}
     THEN d ELSE 0

freedom_price(container) ==
  LET s == JoinTexts(container.kids)
      I == {i \in 1..Len(s) : freedom_monthly_at(s, i) # 0}
      d == freedom_monthly_at(s, Min(I))
  IN IF I # {}
     THEN <<"$">> \o SubSeq(s, d, IF Tok(s, d + 1) = "." /\ IsDigits(Tok(s, d + 2))
                                  THEN d + 2 ELSE d)
     ELSE IF DollarAmount(s) # NoText THEN DollarAmount(s)
     ELSE Unknown

freedom_key(container) ==
  LET name == freedom_plan_name(container) IN
  Key3(IF name = NoText \/ TextLen(name) > 50 THEN <<"Unknown">> ELSE name,
       freedom_price(container), bell_data(container))

deduplicate_freedom_plans(containers) ==
  FirstOccurrences([i \in 1..Len(containers) |-> freedom_key(containers[i])], 1, {}, <<>>)

IsFeaturesHeading(e) == e.tag \in {"h3", "h4"} /\ Lower(e.text) = <<"features", ":">>

\* lines 1376-1404: the items under a "Features:" heading, else those of the
\* first ul with three items or more; every text longer than 5 is appended
freedom_features(container) ==
  IF \/ FindKid(container.kids, IsFeaturesHeading) # 0
     \/ Len(SelectSeq(container.kids, IsLi)) >= 3
  THEN SelectSeq(ItemTexts(container.kids), LAMBDA text : TextLen(text) > 5)
  ELSE <<>>

normalize_freedom_plan(container) ==
  LET name == freedom_plan_name(container) IN
  IF name = NoText \/ TextLen(name) > 50 THEN NoPlan
  ELSE [name |-> name, price |-> freedom_price(container), data |-> bell_data(container),
        features |-> Prefix(freedom_features(container), 15)]

(***************************************************************************)
(* Koodo (two-level grouping).                                             *)
(***************************************************************************)
IsKoodoAmount(e) == Attr(e, "data_testid") = "mfe-rate-plan-data-bucket-amount"
IsKoodoSpeedAllowance(e) == Attr(e, "data_testid") = "mfe-rate-plan-data-bucket-speedAllowance"
\* re.compile('data-bucket-speed', re.I) matches the speedAllowance id too
IsKoodoSpeed(e) ==
  Attr(e, "data_testid") \in {"mfe-rate-plan-data-bucket-speed",
                              "mfe-rate-plan-data-bucket-speedAllowance"}

\* r'at\s+(\d+G(?:\+)?)\s+Speed' (re.I): group(1) as a text, NoText if none
koodo_speed(s) ==
  LET I == {i \in 1..Len(s) : LowerTok(s[i]) = "at" /\ Tok(s, i + 1) = " "
                               /\ Tok(s, i + 2) \in {"4G", "5G", "5G+"} /\ Tok(s, i + 3) = " "
                               /\ LowerTok(Tok(s, i + 4)) = "speed"}
  IN IF I = {} THEN NoText ELSE <<s[Min(I) + 2]>>

\* r'(\d+)\s*GB(?:\s+at\s+\d+G(?:\+)?\s+Speed)?' (re.I): group(0)
GbSpeed(s) ==
  LET I == {i \in 1..Len(s) : GbEnd(s, i) # 0}
      i == Min(I)
      e == GbEnd(s, i)
  IN IF I = {} THEN NoText
     ELSE IF Tok(s, e + 1) = " " /\ LowerTok(Tok(s, e + 2)) = "at" /\ Tok(s, e + 3) = " "
             /\ Tok(s, e + 4) \in {"4G", "5G", "5G+"} /\ Tok(s, e + 5) = " "
             /\ LowerTok(Tok(s, e + 6)) = "speed"
          THEN SubSeq(s, i, e + 6)
     ELSE SubSeq(s, i, e)

\* lines 1565-1591, 1633-1659, 1699-1725: the same in the three functions
koodo_data(tile) ==
  LET a == FindKid(tile.kids, IsKoodoAmount)
      sa == FindKid(tile.kids, IsKoodoSpeedAllowance)
      sp == IF sa # 0 THEN sa ELSE FindKid(tile.kids, IsKoodoSpeed)
      amount == tile.kids[a].text
      speed_text == IF sp # 0 THEN tile.kids[sp].text ELSE NoText
      from_elem ==
        IF speed_text # NoText /\ HasTok(speed_text, "Speed")
        THEN IF koodo_speed(speed_text) # NoText
             THEN amount \o <<" ", "GB", " ", "at", " ">> \o koodo_speed(speed_text)
                         \o <<" ", "Speed">>
             ELSE amount \o <<" ", "GB", " ">> \o speed_text
        ELSE IF IsDigitText(amount) THEN amount \o <<" ", "GB">> ELSE amount
      text == JoinTexts(tile.kids)
  IN IF a # 0 /\ from_elem # Unknown THEN from_elem
     ELSE IF GbSpeed(text) # NoText THEN GbSpeed(text)
     ELSE Unknown

\* lines 1594-1607: the price-lockup node, else the tile's text
koodo_price(tile) ==
  LET l == FindKid(tile.kids, IsPriceLockup)
      text == JoinTexts(tile.kids)
  IN IF l # 0 /\ DollarAmount(tile.kids[l].text) # NoText
     THEN DollarAmount(tile.kids[l].text)
     ELSE IF DollarAmount(text) # NoText THEN DollarAmount(text)
     ELSE Unknown

\* a variant whose key leaves the group out
deduplicate_koodo_plans_any_group(items) ==
  FirstOccurrences([i \in 1..Len(items) |->
                      koodo_data(items[i].tile) \o <<"|">> \o koodo_price(items[i].tile)],
                   1, {}, <<>>)

\* key = f"{group_name}|{data_amount}|{price}" over items [tile, group_name]
deduplicate_koodo_plans_with_groups(items) ==
  FirstOccurrences([i \in 1..Len(items) |->
                      Key3(items[i].group_name, koodo_data(items[i].tile),
                           koodo_price(items[i].tile))], 1, {}, <<>>)

\* key = f"{plan_name}|{price}" with plan_name the data amount or "Unknown"
deduplicate_koodo_plans(tiles) ==
  FirstOccurrences([i \in 1..Len(tiles) |->
                      (IF koodo_data(tiles[i]) # Unknown THEN koodo_data(tiles[i])
                       ELSE <<"Unknown">>) \o <<"|">> \o koodo_price(tiles[i])], 1, {}, <<>>)

IsAllowanceDescription(e) == Attr(e, "data_testid") = "mfe-rate-plan-allowance-description"

\* a token made of letters
IsWord(t) ==
  t \notin Digits \cup {"", "$", ".", "/", " ", "?", "|", "-", "&", ",", ":", "5G", "4G", "5G+"}

\* re.sub(r'(\d+GB)([A-Za-z])', r'\1 \2', text, flags=re.I) and
\* re.sub(r'([a-z])([A-Z])', r'\1 \2', text): the blank put after token i
NeedsBlank(s, i) ==
  /\ IsWord(Tok(s, i + 1))
  /\ \/ LowerTok(s[i]) = "gb" /\ IsDigits(Tok(s, i - 1))
     \/ IsWord(s[i]) /\ s[i] \notin {"GB", "MB", "BYOP"} /\ LowerTok(s[i + 1]) # s[i + 1]

RECURSIVE SpacedFrom(_, _)
SpacedFrom(s, i) ==
  IF i > Len(s) THEN <<>>
  ELSE <<s[i]>> \o (IF NeedsBlank(s, i) THEN <<" ">> ELSE <<>>) \o SpacedFrom(s, i + 1)

\* lines 1765-1768 and 1781-1783
koodo_feature_text(text) == Strip(Squeeze(SpacedFrom(text, 1)))

\* re.match(r'^\d+\s*GB', text, re.I)
StartsWithGb(s) ==
  IsDigits(Tok(s, 1))
  /\ LowerTok(Tok(s, IF Tok(s, 2) = " " THEN 3 ELSE 2)) = "gb"

\* lines 1754-1773: the allowance descriptions other than the data amount
koodo_allowances(tile) ==
  SelectSeq([k \in 1..Len(SelectSeq(tile.kids, IsAllowanceDescription)) |->
               koodo_feature_text(SelectSeq(tile.kids, IsAllowanceDescription)[k].text)],
            LAMBDA text : TextLen(text) > 5 /\ ~StartsWithGb(text))

\* lines 1776-1789: without allowances, the items of the first ul that has
\* a text longer than 5
koodo_features(tile) ==
  IF koodo_allowances(tile) # <<>> THEN koodo_allowances(tile)
  ELSE SelectSeq([k \in 1..Len(ItemTexts(tile.kids)) |->
                    koodo_feature_text(ItemTexts(tile.kids)[k])],
                 LAMBDA text : TextLen(text) > 5)

\* group_name is NoText for None
normalize_koodo_plan(tile, group_name) ==
  LET data_amount == koodo_data(tile)
      grouped == group_name # NoText /\ group_name # <<"Unknown">>
      plan_name ==
        IF grouped
        THEN group_name \o <<" ", "-", " ">>
               \o (IF data_amount # Unknown THEN data_amount ELSE <<"Unknown">>)
        ELSE IF data_amount # Unknown THEN data_amount ELSE <<"Unknown">>
  IN IF plan_name = <<"Unknown">> THEN NoPlan
     ELSE [name |-> plan_name, price |-> koodo_price(tile), data |-> data_amount,
           features |-> Prefix(koodo_features(tile), 15)]

(***************************************************************************)
(* Fido (ancestor search).                                                 *)
(***************************************************************************)
IsTitleSpan(e) == e.tag = "span" /\ Attr(e, "class") = "text-title-5"
IsFidoPrice(e) == Attr(e, "class") = "ds-price"

\* 'BYOP' in name or 'Talk & Text' in name or 'GB' in name or 'Complete' in name
fido_looks_like_plan(text) ==
  \/ HasTok(text, "BYOP") \/ HasTok(text, "GB") \/ HasTok(text, "Complete")
  \/ \E i \in 1..Len(text) :
       text[i] = "Talk" /\ Tok(text, i + 1) = " " /\ Tok(text, i + 2) = "&"
       /\ Tok(text, i + 3) = " " /\ Tok(text, i + 4) = "Text"

\* s.replace('- BYOP Plan', '')
RECURSIVE RemoveByopSuffix(_)
RemoveByopSuffix(s) ==
  IF s = <<>> THEN s
  ELSE IF Len(s) >= 5 /\ SubSeq(s, 1, 5) = <<"-", " ", "BYOP", " ", "Plan">>
       THEN RemoveByopSuffix(SubSeq(s, 6, Len(s)))
  ELSE <<Head(s)>> \o RemoveByopSuffix(Tail(s))

HasByopSuffix(s) == RemoveByopSuffix(s) # s

\* the name both passes read (lines 1931-1945, 1979-1993), NoText if none
fido_plan_name(container) ==
  LET t == FindKid(container.kids, IsTitleSpan)
      from_span == IF t # 0 THEN Strip(RemoveByopSuffix(container.kids[t].text)) ELSE NoText
      hs == SelectKids(container.kids, IsHeading)
      I == {i \in 1..Len(hs) :
              hs[i].text # NoText /\ TextLen(hs[i].text) < 50 /\ ~HasByopSuffix(hs[i].text)}
  IN IF from_span # NoText THEN from_span
     ELSE IF I # {} THEN Strip(hs[Min(I)].text)
     ELSE NoText

\* r'\$(\d+(?:\.\d+)?)\s*(?:per\s*mo|/mo)' (re.I) matched at i
fido_monthly_at(s, i) ==
  LET e == DollarAmountEnd(s, i)
      a == IF Tok(s, e + 1) = " " THEN e + 2 ELSE e + 1
  IN e # 0
     /\ \/ Tok(s, a) = "/" /\ LowerTok(Tok(s, a + 1)) \in {"mo", "month"}
        \/ LowerTok(Tok(s, a)) = "per"
             /\ LowerTok(Tok(s, IF Tok(s, a + 1) = " " THEN a + 2 ELSE a + 1)) \in {"mo", "month"}

fido_monthly(s) ==
  LET I == {i \in 1..Len(s) : fido_monthly_at(s, i)} IN
  IF I = {} THEN NoText ELSE SubSeq(s, Min(I), DollarAmountEnd(s, Min(I)))

fido_dedup_price(container) ==
  LET text == JoinTexts(container.kids) IN
  IF fido_monthly(text) # NoText THEN fido_monthly(text)
  ELSE IF DollarAmount(text) # NoText THEN DollarAmount(text)
  ELSE Unknown

fido_key(container) ==
  LET name == fido_plan_name(container) IN
  Key3(IF name = NoText \/ TextLen(name) > 50 THEN <<"Unknown">> ELSE name,
       fido_dedup_price(container), bell_data(container))

deduplicate_fido_plans(containers) ==
  FirstOccurrences([i \in 1..Len(containers) |-> fido_key(containers[i])], 1, {}, <<>>)

fido_final_price(container) ==
  LET p == FindKid(container.kids, IsFidoPrice)
      text == JoinTexts(container.kids)
  IN IF p # 0 /\ DollarAmount(container.kids[p].text) # NoText
     THEN DollarAmount(container.kids[p].text)
     ELSE IF fido_monthly(text) # NoText THEN fido_monthly(text)
     ELSE Unknown

\* lines 2021-2030: every li text longer than 5 is appended
fido_features(container) ==
  SelectSeq(ItemTexts(container.kids), LAMBDA text : TextLen(text) > 5)

normalize_fido_plan(container) ==
  LET name == fido_plan_name(container) IN
  IF name = NoText \/ TextLen(name) > 50 THEN NoPlan
  ELSE [name |-> name, price |-> fido_final_price(container), data |-> bell_data(container),
        features |-> Prefix(fido_features(container), 15)]

(***************************************************************************)
(* Virgin (custom element, then heuristic).                                *)
(***************************************************************************)
IsMonthlyPriceId(e) == Attr(e, "id") = "accss-monthlyPrice-1"
IsPlanFeaturesSpan(e) == e.tag = "span" /\ Attr(e, "class") \in {"planFeatures", "RP_DATA"}

\* r'\$(\d+(?:\.\d+)?)\s*(?:/|per)\s*mo' (re.I) matched at i
virgin_monthly_at(s, i) ==
  LET e == DollarAmountEnd(s, i)
      a == IF Tok(s, e + 1) = " " THEN e + 2 ELSE e + 1
      b == IF Tok(s, a + 1) = " " THEN a + 2 ELSE a + 1
  IN e # 0 /\ LowerTok(Tok(s, a)) \in {"/", "per"} /\ LowerTok(Tok(s, b)) \in {"mo", "month"}

\* lines 2181-2197 and 2309-2325
virgin_price(container) ==
  LET Price(price_text, text, I) ==
        IF DollarAmount(price_text) # NoText THEN DollarAmount(price_text)
        ELSE IF I # {} THEN SubSeq(text, Min(I), DollarAmountEnd(text, Min(I)))
        ELSE IF DollarAmount(text) # NoText THEN DollarAmount(text)
        ELSE Unknown
      FromText(price_text, text) ==
        Price(price_text, text, {i \in 1..Len(text) : virgin_monthly_at(text, i)})
      FromElem(p) ==
        FromText(IF p # 0 THEN container.kids[p].text ELSE NoText, JoinTexts(container.kids))
  IN FromElem(FindKid(container.kids, IsMonthlyPriceId))

\* r'talk\s*and\s*text' (re.I) found in s
HasTalkAndText(s) ==
  \E i \in 1..Len(s) :
    LET a == IF Tok(s, i + 1) = " " THEN i + 2 ELSE i + 1
        b == IF Tok(s, a + 1) = " " THEN a + 2 ELSE a + 1
    IN LowerTok(s[i]) = "talk" /\ LowerTok(Tok(s, a)) = "and" /\ LowerTok(Tok(s, b)) = "text"

\* r'pay\s*per\s*use' (re.I) found in s
HasPayPerUse(s) ==
  \E i \in 1..Len(s) :
    LET a == IF Tok(s, i + 1) = " " THEN i + 2 ELSE i + 1
        b == IF Tok(s, a + 1) = " " THEN a + 2 ELSE a + 1
    IN LowerTok(s[i]) = "pay" /\ LowerTok(Tok(s, a)) = "per" /\ LowerTok(Tok(s, b)) = "use"

PayPerUse == <<"pay", " ", "per", " ", "use">>
TalkAndText == <<"Talk", " ", "and", " ", "Text">>

\* the span both passes take for the data description, 0 if none
virgin_data_span(container) ==
  LET Span(f, I) == IF f # 0 THEN f ELSE IF I # {} THEN Min(I) ELSE 0
  IN Span(FindKid(container.kids, IsPlanFeaturesSpan),
          {i \in 1..Len(container.kids) :
             /\ container.kids[i].tag = "span"
             /\ \/ GbMbAmount(container.kids[i].text) # NoText
                \/ \E j \in 1..Len(container.kids[i].text) :
                     LowerTok(container.kids[i].text[j]) = "talk"})

virgin_data(container) ==
  LET Data(d, data_text, text) ==
        IF d # 0 /\ GbMbAmount(data_text) # NoText THEN GbMbAmount(data_text)
        ELSE IF d # 0 /\ HasTalkAndText(data_text) THEN PayPerUse
        ELSE IF GbMbAmount(text) # NoText THEN GbMbAmount(text)
        ELSE IF HasPayPerUse(text) THEN PayPerUse
        ELSE IF HasTalkAndText(text) THEN PayPerUse
        ELSE Unknown
      FromSpan(d) ==
        Data(d, IF d # 0 THEN container.kids[d].text ELSE NoText, JoinTexts(container.kids))
  IN FromSpan(virgin_data_span(container))

\* re.search(r'(\d+GB|\d+MB)', s, re.I).group(1), NoText if none
GbMbJoined(s) ==
  LET I == {i \in 1..Len(s) : IsDigits(s[i]) /\ LowerTok(Tok(s, i + 1)) \in {"gb", "mb"}} IN
  IF I = {} THEN NoText ELSE SubSeq(s, Min(I), Min(I) + 1)

\* the headings of the vocabulary that contain one of skip_texts
virgin_skip_headings == {<<"All plans include">>, <<"Get", " ", "more">>}

\* number of tokens of s that lie in s[:n]
RECURSIVE PrefixToks(_, _)
PrefixToks(s, n) ==
  IF s = <<>> \/ CharLen(Head(s)) > n THEN 0
  ELSE 1 + PrefixToks(Tail(s), n - CharLen(Head(s)))

\* lines 2231-2273 and 2359-2400, NoText if no name is found
virgin_plan_name(container) ==
  LET Name(d, data_text, hs, I, data_amount, text) ==
        IF d # 0 /\ GbMbJoined(data_text) # NoText THEN GbMbJoined(data_text)
        ELSE IF d # 0 /\ HasTalkAndText(data_text) /\ GbMbAmount(data_text) = NoText
             THEN TalkAndText
        ELSE IF I # {} THEN hs[Min(I)].text
        ELSE IF data_amount # Unknown
             THEN IF data_amount = PayPerUse THEN TalkAndText ELSE data_amount
        ELSE IF \E i \in 1..PrefixToks(text, 100) : LowerTok(text[i]) = "basic"
             THEN <<"Basic">>
        ELSE NoText
      FromHeadings(d, hs) ==
        Name(d, IF d # 0 THEN container.kids[d].text ELSE NoText, hs,
             {i \in 1..Len(hs) : hs[i].text # NoText /\ TextLen(hs[i].text) < 50
                                   /\ hs[i].text \notin virgin_skip_headings},
             virgin_data(container), JoinTexts(container.kids))
  IN FromHeadings(virgin_data_span(container), SelectKids(container.kids, IsHeading))

\* a validity test that looks at the name only
SkippedByName(container) ==
  LET Invalid(name) == name = NoText \/ name = <<"Unknown">> \/ TextLen(name) > 50
  IN Invalid(virgin_plan_name(container))

\* not plan_name or plan_name == "Unknown" or len(plan_name) > 50 or price == "unknown"
virgin_skipped(container) ==
  LET Invalid(name, price) ==
        name = NoText \/ name = <<"Unknown">> \/ TextLen(name) > 50 \/ price = Unknown
  IN Invalid(virgin_plan_name(container), virgin_price(container))

\* the identity the loop below separates candidates by
virgin_key(container) ==
  IF virgin_skipped(container) THEN Skip
  ELSE Key3(virgin_plan_name(container), virgin_price(container), virgin_data(container))

\* lines 2279-2301: the key is price|data, or name|price|data when the plan
\* stored under price|data has another name
RECURSIVE virgin_loop(_, _, _, _)
virgin_loop(containers, i, seen_keys, unique) ==
  IF i > Len(containers) THEN unique
  ELSE IF virgin_skipped(containers[i]) THEN virgin_loop(containers, i + 1, seen_keys, unique)
  ELSE LET Keep(name, key) ==
             IF key \notin DOMAIN seen_keys
             THEN virgin_loop(containers, i + 1, seen_keys @@ (key :> name), Append(unique, i))
             ELSE virgin_loop(containers, i + 1, seen_keys, unique)
           Keyed(name, short) ==
             Keep(name, IF short \in DOMAIN seen_keys /\ seen_keys[short] # name
                        THEN name \o <<"|">> \o short ELSE short)
       IN Keyed(virgin_plan_name(containers[i]),
                virgin_price(containers[i]) \o <<"|">> \o virgin_data(containers[i]))

deduplicate_virgin_plans(containers) == virgin_loop(containers, 1, <<>>, <<>>)

\* re.match(r'^\$?\d+.*mo', text, re.I)
LooksLikePrice(s) ==
  \E d \in {1, 2} :
    /\ IsDigits(Tok(s, d)) /\ (d = 2 => Tok(s, 1) = "$")
    /\ \E i \in (d + 1)..Len(s) : TokenHas(s[i], "mo")

virgin_skip_patterns ==
  {<<"new", " ", "activations", " ", "only">>, <<"tooltip">>, <<"view", " ", "rates">>,
   <<"suspicious", " ", "call", " ", "detection">>}

\* re.split(r'\s{3,}|\.\s+(?=[A-Z])', text) of a text whose blanks are single
RECURSIVE SplitSentences(_)
SplitSentences(s) ==
  LET B == {i \in 1..Len(s) : s[i] = "." /\ Tok(s, i + 1) = " "
                              /\ LowerTok(Tok(s, i + 2)) # Tok(s, i + 2)}
  IN IF B = {} THEN <<s>>
     ELSE <<SubSeq(s, 1, Min(B) - 1)>> \o SplitSentences(SubSeq(s, Min(B) + 2, Len(s)))

\* lines 2413-2436: the parts of one li that may become features
virgin_parts(text) ==
  IF TextLen(text) > 5 /\ ~LooksLikePrice(text) /\ ~AnyKeyword(text, virgin_skip_patterns)
  THEN SelectSeq([k \in 1..Len(SplitSentences(text)) |-> Strip(SplitSentences(text)[k])],
                 LAMBDA part : TextLen(part) > 5)
  ELSE <<>>

RECURSIVE virgin_list_features(_)
virgin_list_features(texts) ==
  IF texts = <<>> THEN <<>>
  ELSE virgin_parts(Strip(Squeeze(Head(texts)))) \o virgin_list_features(Tail(texts))

\* lines 2441-2456: of the four patterns only 'Unlimited\s+' and 'Canada-wide'
\* give a text longer than 5 that does not start with digits; every match is
\* appended
virgin_pattern_features(s) ==
  SelectSeq([i \in 1..Len(s) |-> IF LowerTok(s[i]) = "unlimited" /\ Tok(s, i + 1) = " "
                                 THEN <<s[i]>> ELSE NoText],
            LAMBDA m : m # NoText)
  \o SelectSeq([i \in 1..Len(s) |-> IF LowerTok(s[i]) = "canada-wide"
                                    THEN <<s[i]>> ELSE NoText],
               LAMBDA m : m # NoText)

virgin_features(container) ==
  IF Dedupe(virgin_list_features(ItemTexts(container.kids))) # <<>>
  THEN Dedupe(virgin_list_features(ItemTexts(container.kids)))
  ELSE virgin_pattern_features(Squeeze(JoinTexts(container.kids)))

normalize_virgin_plan(container) ==
  IF virgin_skipped(container) THEN NoPlan
  ELSE [name |-> virgin_plan_name(container), price |-> virgin_price(container),
        data |-> virgin_data(container),
        features |-> Prefix(virgin_features(container), 10)]

(***************************************************************************)
(* Markup values.  A strip function returns either a document (the input   *)
(* or what is left of the parsed soup) or the minimal markup built from    *)
(* the normalized plans; len() of either counts characters.                *)
(***************************************************************************)
TagLen(tag) ==
  CASE tag \in {"p", "s"} -> 1
    [] tag \in {"h3", "li"} -> 2
    [] tag \in {"div", "sup", "nav"} -> 3
    [] tag = "span" -> 4
    [] tag = "button" -> 6
    [] tag = "ds-price" -> 8
    [] tag = "plan-container" -> 14
    [] OTHER -> 3

\* characters of the attributes: ' name="value"', name and value counted as 10 each
AttrsLen(attrs) == 24 * Cardinality(DOMAIN attrs)

\* <tag attrs>text</tag>
ElemLen(e) == 2 * TagLen(e.tag) + 5 + AttrsLen(e.attrs) + TextLen(e.text)

RECURSIVE ElemsLen(_)
ElemsLen(es) == IF es = <<>> THEN 0 ELSE ElemLen(Head(es)) + ElemsLen(Tail(es))

RECURSIVE NodesLen(_)
NodesLen(ns) ==
  IF ns = <<>> THEN 0
  ELSE LET n == Head(ns) IN
       2 * TagLen(n.tag) + 5 + AttrsLen(n.attrs)
         + ElemsLen(n.kids)
         + (IF "sub" \in DOMAIN n THEN NodesLen(n.sub) ELSE 0)
         + (IF "container" \in DOMAIN n /\ n.container
            THEN 2 * TagLen("div") + 5 + AttrsLen([data_testid |-> ""]) ELSE 0)
         + NodesLen(Tail(ns))

Document(nodes) == [kind |-> "document", nodes |-> nodes]

Field(plan, f) == IF f \in DOMAIN plan THEN plan[f] ELSE NoText

clean_feature(feature) == Strip(Squeeze(feature))

Line(cls, text) == [cls |-> cls, text |-> text]

\* lines 391-401: the features list; a feature that is blank after cleaning
\* gets no item
RECURSIVE feature_items(_)
feature_items(features) ==
  IF features = <<>> THEN <<>>
  ELSE (IF clean_feature(Head(features)) # NoText
        THEN <<Line("li", clean_feature(Head(features)))>> ELSE <<>>)
       \o feature_items(Tail(features))

\* lines 403-413: the discounts and the promotions, one item each
list_items(texts) == [k \in 1..Len(texts) |-> Line("li", texts[k])]

\* a variant that writes the current price above the regular price
PriceFirstLines(plan) ==
  <<Line("plan", NoText), Line("h2", plan.name)>>
  \o (IF Field(plan, "price") # NoText /\ plan.price # Unknown
      THEN <<Line("price", plan.price)>> ELSE <<>>)
  \o (IF Field(plan, "regular_price") # NoText /\ Field(plan, "price") # NoText
         /\ plan.regular_price # plan.price
      THEN <<Line("regular-price", plan.regular_price)>> ELSE <<>>)
  \o (IF Field(plan, "bundle_price") # NoText
      THEN <<Line("bundle-price", plan.bundle_price)>> ELSE <<>>)
  \o (IF Field(plan, "data") # NoText /\ plan.data # Unknown
      THEN <<Line("data", plan.data)>> ELSE <<>>)
  \o (IF Field(plan, "network") # NoText
      THEN <<Line("network", plan.network)>> ELSE <<>>)
  \o (IF Field(plan, "roaming") # NoText
      THEN <<Line("roaming", plan.roaming)>> ELSE <<>>)
  \o (IF Field(plan, "features") # <<>>
      THEN <<Line("features", NoText)>> \o feature_items(plan.features)
           \o <<Line("/ul", NoText)>>
      ELSE <<>>)
  \o (IF Field(plan, "discounts") # <<>>
      THEN <<Line("discounts", NoText)>> \o list_items(plan.discounts)
           \o <<Line("/ul", NoText)>>
      ELSE <<>>)
  \o (IF Field(plan, "promotions") # <<>>
      THEN <<Line("promotions", NoText)>> \o list_items(plan.promotions)
           \o <<Line("/ul", NoText)>>
      ELSE <<>>)
  \o <<Line("/plan", NoText)>>

\* a variant that writes the regular price whenever the record has one
RegularAlwaysLines(plan) ==
  <<Line("plan", NoText), Line("h2", plan.name)>>
  \o (IF Field(plan, "regular_price") # NoText
      THEN <<Line("regular-price", plan.regular_price)>> ELSE <<>>)
  \o (IF Field(plan, "price") # NoText /\ plan.price # Unknown
      THEN <<Line("price", plan.price)>> ELSE <<>>)
  \o (IF Field(plan, "bundle_price") # NoText
      THEN <<Line("bundle-price", plan.bundle_price)>> ELSE <<>>)
  \o (IF Field(plan, "data") # NoText /\ plan.data # Unknown
      THEN <<Line("data", plan.data)>> ELSE <<>>)
  \o (IF Field(plan, "network") # NoText
      THEN <<Line("network", plan.network)>> ELSE <<>>)
  \o (IF Field(plan, "roaming") # NoText
      THEN <<Line("roaming", plan.roaming)>> ELSE <<>>)
  \o (IF Field(plan, "features") # <<>>
      THEN <<Line("features", NoText)>> \o feature_items(plan.features)
           \o <<Line("/ul", NoText)>>
      ELSE <<>>)
  \o (IF Field(plan, "discounts") # <<>>
      THEN <<Line("discounts", NoText)>> \o list_items(plan.discounts)
           \o <<Line("/ul", NoText)>>
      ELSE <<>>)
  \o (IF Field(plan, "promotions") # <<>>
      THEN <<Line("promotions", NoText)>> \o list_items(plan.promotions)
           \o <<Line("/ul", NoText)>>
      ELSE <<>>)
  \o <<Line("/plan", NoText)>>

\* the lines build_final_html appends for one plan (lines 368-414); a field
\* the record lacks, None, '' and [] are all false for plan.get
plan_lines(plan) ==
  <<Line("plan", NoText), Line("h2", plan.name)>>
  \o (IF Field(plan, "regular_price") # NoText /\ Field(plan, "price") # NoText
         /\ plan.regular_price # plan.price
      THEN <<Line("regular-price", plan.regular_price)>> ELSE <<>>)
  \o (IF Field(plan, "price") # NoText /\ plan.price # Unknown
      THEN <<Line("price", plan.price)>> ELSE <<>>)
  \o (IF Field(plan, "bundle_price") # NoText
      THEN <<Line("bundle-price", plan.bundle_price)>> ELSE <<>>)
  \o (IF Field(plan, "data") # NoText /\ plan.data # Unknown
      THEN <<Line("data", plan.data)>> ELSE <<>>)
  \o (IF Field(plan, "network") # NoText
      THEN <<Line("network", plan.network)>> ELSE <<>>)
  \o (IF Field(plan, "roaming") # NoText
      THEN <<Line("roaming", plan.roaming)>> ELSE <<>>)
  \o (IF Field(plan, "features") # <<>>
      THEN <<Line("features", NoText)>> \o feature_items(plan.features)
           \o <<Line("/ul", NoText)>>
      ELSE <<>>)
  \o (IF Field(plan, "discounts") # <<>>
      THEN <<Line("discounts", NoText)>> \o list_items(plan.discounts)
           \o <<Line("/ul", NoText)>>
      ELSE <<>>)
  \o (IF Field(plan, "promotions") # <<>>
      THEN <<Line("promotions", NoText)>> \o list_items(plan.promotions)
           \o <<Line("/ul", NoText)>>
      ELSE <<>>)
  \o <<Line("/plan", NoText)>>

RECURSIVE all_plan_lines(_)
all_plan_lines(plans) ==
  IF plans = <<>> THEN <<>> ELSE plan_lines(Head(plans)) \o all_plan_lines(Tail(plans))

build_final_html(plans) == [kind |-> "minimal", lines |-> all_plan_lines(plans)]

\* characters of one rendered line, without the joining newline
LineLen(l) ==
  CASE l.cls = "plan" -> 18
    [] l.cls = "h2" -> 11 + TextLen(l.text)
    [] l.cls = "regular-price" -> 46 + TextLen(l.text)
    [] l.cls = "price" -> 38 + TextLen(l.text)
    [] l.cls = "bundle-price" -> 45 + TextLen(l.text)
    [] l.cls = "data" -> 28 + TextLen(l.text)
    [] l.cls \in {"network", "roaming"} -> 25 + TextLen(l.text)
    [] l.cls = "features" -> 23
    [] l.cls = "discounts" -> 24
    [] l.cls = "promotions" -> 25
    [] l.cls = "li" -> 13 + TextLen(l.text)
    [] l.cls = "/ul" -> 7
    [] l.cls = "/plan" -> 6

RECURSIVE LinesLen(_)
LinesLen(ls) == IF ls = <<>> THEN 0 ELSE LineLen(Head(ls)) + LinesLen(Tail(ls))

\* len(html): '\n'.join(html_parts) for the minimal markup
MarkupLen(html) ==
  IF html.kind = "document" THEN NodesLen(html.nodes)
  ELSE IF html.lines = <<>> THEN 0
  ELSE LinesLen(html.lines) + Len(html.lines) - 1

NoResult == [html |-> Document(<<>>), stats |-> <<>>]

\* reduction percent in hundredths, ((original - final) / original * 100)
reduction_of(original_size, final_size) ==
  IF original_size > 0 THEN ((original_size - final_size) * 10000) \div original_size ELSE 0

basic_fallback(content, original_size) ==
  [html |-> Document(content),
   stats |-> [original_size |-> original_size,
              stripped_size |-> NodesLen(content),
              original_tokens |-> original_size \div 4,
              stripped_tokens |-> NodesLen(content) \div 4,
              tokens_saved |-> 0,
              reduction_percent |-> 0,
              plan_count |-> 0,
              tiles_before_dedup |-> 0,
              tiles_after_dedup |-> 0]]

\* the return statement shared by the strip functions once plans are built
\* a variant that counts a started token as a whole one
final_result_rounded_up(content, plans, before, after) ==
  LET final_html == build_final_html(plans)
      original_size == NodesLen(content)
      final_size == MarkupLen(final_html)
  IN [html |-> final_html,
      stats |-> [original_size |-> original_size,
                 stripped_size |-> final_size,
                 original_tokens |-> (original_size + 3) \div 4,
                 stripped_tokens |-> (final_size + 3) \div 4,
                 tokens_saved |-> (original_size \div 4) - (final_size \div 4),
                 reduction_percent |-> reduction_of(original_size, final_size),
                 plan_count |-> Len(plans),
                 tiles_before_dedup |-> before,
                 tiles_after_dedup |-> Len(after)]]

final_result(content, plans, before, after) ==
  LET final_html == build_final_html(plans)
      original_size == NodesLen(content)
      final_size == MarkupLen(final_html)
  IN [html |-> final_html,
      stats |-> [original_size |-> original_size,
                 stripped_size |-> final_size,
                 original_tokens |-> original_size \div 4,
                 stripped_tokens |-> final_size \div 4,
                 tokens_saved |-> (original_size \div 4) - (final_size \div 4),
                 reduction_percent |-> reduction_of(original_size, final_size),
                 plan_count |-> Len(plans),
                 tiles_before_dedup |-> before,
                 tiles_after_dedup |-> Len(after)]]

\* normalized = normalize(tile); if normalized: normalized_plans.append(normalized)
\* norm[i] is the record of candidate i or NoPlan; src records the candidate.

RECURSIVE normalize_all(_, _)
normalize_all(unique, norm) ==
  IF unique = <<>> THEN <<>>
  ELSE (IF norm[Head(unique)] = NoPlan THEN <<>>
        ELSE <<norm[Head(unique)] @@ [src |-> Head(unique)]>>)
       \o normalize_all(Tail(unique), norm)

(***************************************************************************)
(* Noise removal on the parsed document (the soup).                        *)
(***************************************************************************)
WithoutAttrs(attrs, names) == [a \in DOMAIN attrs \ names |-> attrs[a]]

\* del tag[attr] for the attributes in names, decompose() for the tags in
\* tags, then decompose() of the <div>s with no text and no children
RECURSIVE remove_noise(_, _, _)
remove_noise(nodes, names, tags) ==
  IF nodes = <<>> THEN <<>>
  ELSE LET n == Head(nodes)
           KeptTag(e) == e.tag \notin tags
           NotEmptyDiv(e) == ~(e.tag = "div" /\ e.text = NoText)
           kept == SelectSeq(n.kids, KeptTag)
           kids == SelectSeq([i \in 1..Len(kept) |->
                                [kept[i] EXCEPT !.attrs = WithoutAttrs(@, names)]], NotEmptyDiv)
           sub == IF "sub" \in DOMAIN n THEN remove_noise(n.sub, names, tags) ELSE <<>>
           cleaned == IF "sub" \in DOMAIN n
                      THEN [n EXCEPT !.attrs = WithoutAttrs(@, names), !.kids = kids, !.sub = sub]
                      ELSE [n EXCEPT !.attrs = WithoutAttrs(@, names), !.kids = kids]
       IN (IF n.tag \in tags \/ (n.tag = "div" /\ kept = <<>> /\ sub = <<>>)
           THEN <<>> ELSE <<cleaned>>)
          \o remove_noise(Tail(nodes), names, tags)

AriaAttrs == {"aria_label", "aria_modal"}
NoiseTags == {"sup", "button"}

\* lines 463-520: data-testid, aria-* and dir attributes, <sup>, <button>, empty <div>s
telus_clean(nodes) == remove_noise(nodes, AriaAttrs \cup {"data_testid", "dir"}, NoiseTags)

\* lines 850-912
bell_clean(nodes) ==
  remove_noise(nodes, AriaAttrs \cup {"data_same_height"},
               NoiseTags \cup {"nav", "header", "footer", "form", "s"})

\* lines 1176-1190, and the same steps of the Koodo and Fido functions
freedom_clean(nodes) == remove_noise(nodes, AriaAttrs, NoiseTags)

\* lines 2120-2137
virgin_clean(nodes) == remove_noise(nodes, AriaAttrs, NoiseTags \cup {"nav", "header", "footer"})

(***************************************************************************)
(* Input documents.                                                        *)
(***************************************************************************)
E(tag, text) == [tag |-> tag, attrs |-> <<>>, text |-> text]
EC(tag, class, text) == [tag |-> tag, attrs |-> [class |-> class], text |-> text]
ET(tag, testid, text) == [tag |-> tag, attrs |-> [data_testid |-> testid], text |-> text]
EI(tag, id, text) == [tag |-> tag, attrs |-> [id |-> id], text |-> text]

\* nodes no carrier takes for a tile: an interactive control, plain text
ButtonNode == [tag |-> "button", attrs |-> [aria_label |-> <<"select">>], kids |-> <<>>]
TextNode == [tag |-> "div", attrs |-> <<>>, kids |-> <<E("p", <<"lorem ipsum">>)>>]

Docs(nodes) == UNION {[1..n -> nodes] : n \in 0..MaxNodes}

PerMonth85 == <<"$", "85", ".", "00", " ", "per", " ", "month">>

RogersTile(kids) == [tag |-> "div", attrs |-> [class |-> "dsa-vertical-tile"], kids |-> kids]

Essentials70 ==
  RogersTile(<<E("p", <<"Essentials">>), E("ds-price", <<"$", "70">>),
               E("li", <<"60", " ", "GB">>)>>)
Essentials75 ==
  RogersTile(<<E("p", <<"Essentials">>), E("ds-price", <<"$", "75">>),
               E("li", <<"100", " ", "GB">>)>>)

RogersNodes ==
  {RogersTile(<<E("p", <<"Essentials">>), E("span", <<"$", "70", "/", "mo">>),
                E("li", <<"60", " ", "GB">>)>>),
   RogersTile(<<E("p", <<"Essentials">>), E("span", <<"$", "75", "/", "mo">>),
                E("li", <<"60", " ", "GB">>)>>),
   RogersTile(<<E("p", <<"Essentials">>), E("span", <<"$", "70", " ", "per", " ", "mo">>),
                E("li", <<"60", " ", "GB">>)>>),
   RogersTile(<<E("p", <<"Popular">>), EC("div", "price", PerMonth85)>>),
   RogersTile(<<E("p", <<"Popular">>), E("li", <<"Unlimited", " ", "data">>)>>),
   RogersTile(<<E("p", <<"Features">>), E("ds-price", <<"$", "70">>)>>),
   ButtonNode}

\* Scenario A: four identical tiles and one that differs in price and data
ScenarioA == <<Essentials70, Essentials70, Essentials70, Essentials70, Essentials75>>

TelusTile(kids) ==
  [tag |-> "div", attrs |-> [data_testid |-> "mfe-rate-plan-tile-1-container"], kids |-> kids]

Lockup70 == ET("div", "plan-price-lockup", <<"$", "70">>)
Bucket60 == ET("span", "mfe-rate-plan-data-bucket-amount", <<"60">>)

TelusNodes ==
  {TelusTile(<<E("h3", <<"Essentials">>), Lockup70, Bucket60>>),
   TelusTile(<<E("h3", <<"Essentials">>), E("p", PerMonth85), E("li", <<"60", " ", "GB">>)>>),
   TelusTile(<<E("p", <<"Essentials">>), Lockup70, Bucket60>>),
   TelusTile(<<E("h3", <<"Popular">>), Bucket60>>),
   TelusTile(<<Lockup70, E("sup", <<"5">>)>>),
   [tag |-> "div", attrs |-> <<>>, kids |-> <<E("h3", <<"Basic">>)>>],
   ButtonNode}

BellContainer(kids) == [tag |-> "div", attrs |-> [data_product_id |-> "1"], kids |-> kids]

BellNodes ==
  {BellContainer(<<E("h3", <<"Essentials">>), E("span", <<"$", "70", "/", "mo">>),
                   E("li", <<"60", " ", "GB">>)>>),
   BellContainer(<<E("h3", <<"Essentials">>), E("span", <<"$", "10">>),
                   E("span", <<"$", "70", "/", "mo">>), E("li", <<"60", " ", "GB">>)>>),
   BellContainer(<<E("span", <<"$", "70", "/", "mo">>)>>),
   BellContainer(<<E("h3", <<"Are you a new customer", "?">>)>>),
   BellContainer(<<E("h3", <<"Are you a new customer">>), E("span", <<"$", "70", "/", "mo">>)>>),
   BellContainer(<<E("h3", <<"Popular">>), E("p", PerMonth85)>>),
   BellContainer(<<E("h3", <<"Popular">>), E("li", <<"100", " ", "GB">>)>>),
   BellContainer(<<E("h3", <<"Popular">>), E("s", <<"$", "85", "/", "mo">>),
                   E("span", <<"$", "70", "/", "mo">>)>>),
   ButtonNode}

FreedomComponent(label, kids) ==
  [tag |-> "div", attrs |-> [data_testid |-> "planComponent", aria_label |-> label],
   kids |-> kids]

FreedomNodes ==
  {FreedomComponent(<<"10", "GB", " ", "5G+">>,
                    <<E("span", <<"34", "/", "mo">>), E("li", <<"10", " ", "GB">>)>>),
   FreedomComponent(NoText,
                    <<ET("div", "plan-card-10gb-5g", NoText), E("span", <<"$", "34", "/", "mo">>),
                      E("li", <<"10", " ", "GB">>)>>),
   FreedomComponent(NoText, <<E("span", <<"$", "34", "/", "mo">>)>>),
   FreedomComponent(NoText, <<E("h3", <<"Basic">>), E("p", PerMonth85)>>),
   FreedomComponent(NoText, <<E("h3", <<"Basic">>), E("li", <<"10", " ", "GB">>)>>),
   ButtonNode, TextNode}

KoodoTile(kids) ==
  [tag |-> "div", attrs |-> [data_testid |-> "mfe-rate-plan-tile-1-container"], kids |-> kids]

\* a group node: kids are the group's own elements, container tells whether
\* it has a tiles container, sub are the nodes inside that container
KoodoGroup(kids, container, sub) ==
  [tag |-> "div", attrs |-> [data_testid |-> "mfe-rate-plan-tile-group-1"], kids |-> kids,
   container |-> container, sub |-> sub]

GroupName(text) == ET("h2", "mfe-rate-plan-group-name", text)

Koodo60 ==
  KoodoTile(<<ET("span", "mfe-rate-plan-data-bucket-amount", <<"60">>),
              ET("span", "mfe-rate-plan-data-bucket-speedAllowance",
                 <<"at", " ", "5G", " ", "Speed">>),
              Lockup70>>)
Koodo100 ==
  KoodoTile(<<ET("span", "mfe-rate-plan-data-bucket-amount", <<"100">>),
              E("p", <<"$", "85", ".", "00", " ", "per", " ", "month">>)>>)
KoodoNoData == KoodoTile(<<Lockup70>>)

KoodoNodes ==
  {KoodoGroup(<<GroupName(<<"Canada Wide Plans">>)>>, TRUE, <<Koodo60, Koodo60, Koodo100>>),
   KoodoGroup(<<GroupName(<<"Starter Plans">>)>>, TRUE, <<Koodo60>>),
   KoodoGroup(<<>>, TRUE, <<KoodoNoData, ButtonNode>>),
   KoodoGroup(<<GroupName(<<"Canada Wide Plans">>)>>, TRUE, <<KoodoNoData>>),
   KoodoGroup(<<GroupName(<<"Canada Wide Plans">>)>>, FALSE, <<>>),
   Koodo60, ButtonNode}

\* "$50" / "10 GB" in the group "Canada Wide Plans" and in the group "Starter Plans"
Koodo10 ==
  KoodoTile(<<ET("span", "mfe-rate-plan-data-bucket-amount", <<"10">>),
              ET("div", "plan-price-lockup", <<"$", "50">>)>>)
ScenarioC ==
  <<KoodoGroup(<<GroupName(<<"Canada Wide Plans">>)>>, TRUE, <<Koodo10>>),
    KoodoGroup(<<GroupName(<<"Starter Plans">>)>>, TRUE, <<Koodo10>>)>>

FidoContainer(kids) == [tag |-> "div", attrs |-> <<>>, kids |-> kids]

Title(text) == EC("span", "text-title-5", text)

FidoNodes ==
  {FidoContainer(<<Title(<<"10", " ", "GB", " ", "-", " ", "BYOP", " ", "Plan">>),
                   EC("div", "ds-price", <<"$", "34", "/", "mo">>)>>),
   FidoContainer(<<Title(<<"10", " ", "GB", " ", "-", " ", "BYOP", " ", "Plan">>),
                   E("p", <<"$", "50", "/", "mo">>), EC("div", "ds-price", <<"$", "34">>)>>),
   FidoContainer(<<Title(<<"Talk", " ", "&", " ", "Text">>), Title(<<"10", " ", "GB">>),
                   EC("div", "ds-price", <<"$", "34", "/", "mo">>)>>),
   FidoContainer(<<Title(<<"Complete">>), EC("div", "ds-price", NoText)>>),
   FidoContainer(<<Title(<<"Complete">>), EC("div", "ds-price", PerMonth85)>>),
   FidoContainer(<<Title(<<"10", " ", "GB">>), E("p", <<"$", "34", "/", "mo">>)>>),
   ButtonNode}

PlanContainer(kids) == [tag |-> "plan-container", attrs |-> <<>>, kids |-> kids]

Monthly45 == EI("span", "accss-monthlyPrice-1", <<"$", "45">>)

VirginNodes ==
  {PlanContainer(<<Monthly45, EC("span", "planFeatures", <<"10", "GB", " ", "data">>)>>),
   PlanContainer(<<E("h3", <<"Basic">>), Monthly45,
                   EC("span", "planFeatures", <<"10", " ", "GB", " ", "data">>)>>),
   PlanContainer(<<E("h3", <<"Popular">>), Monthly45,
                   EC("span", "planFeatures", <<"10", " ", "GB", " ", "data">>)>>),
   PlanContainer(<<EC("span", "planFeatures", <<"10", "GB", " ", "data">>)>>),
   PlanContainer(<<E("span", <<"Talk", " ", "and", " ", "text">>), E("p", PerMonth85)>>),
   [tag |-> "plan-container", attrs |-> <<>>, kids |-> <<>>,
    sub |-> <<[tag |-> "div", attrs |-> [class |-> "plan"],
               kids |-> <<E("h3", <<"Essentials">>), E("p", <<"$", "50", "/", "mo">>)>>]>>],
   [tag |-> "div", attrs |-> <<>>,
    kids |-> <<E("p", <<"lorem ipsum">>), E("span", <<"$", "45", "/", "mo">>),
               E("span", <<"10", "GB", " ", "data">>)>>],
   ButtonNode}

(***************************************************************************)
(* The calls.  plan_tiles holds the located candidates (plan_tiles,        *)
(* plan_containers or all_plan_tiles_with_groups of the source),           *)
(* unique_plans the indices of the candidates the deduplication kept.      *)
(***************************************************************************)
\* the call that is remembered for comparison: none after construction
NoCall == [carrier |-> "none"]

\* no UnifiedPipeline and no ClaudePlanExtractor call yet
NoPipeline == [pc |-> "none"]
NoExtractor == [pc |-> "idle"]

\* the steps of a call, in the order of the statements of the strip function:
\* "locate" (selecting the candidate tiles), "dedup" (the identity keys),
\* "normalize", "strip" (removal of attributes and noise nodes from the
\* parsed document), "build" (_build_final_html)
NotLocated == <<"locate">>
Extracted == <<"locate", "dedup", "normalize">>
Stripped == Extracted \o <<"strip">>

Init ==
  /\ pc = "idle"
  /\ carrier = "none"
  /\ html_content = <<>>
  /\ soup = <<>>
  /\ plan_tiles = <<>>
  /\ unique_plans = <<>>
  /\ normalized_plans = <<>>
  /\ result = NoResult
  /\ raised = "none"
  /\ steps = <<>>
  /\ history = NoCall
  /\ pipeline = NoPipeline
  /\ extractor = NoExtractor

\* a variant that counts the located tiles in a total kept between the calls
ReturnedWithTotal(c, content, cleaned, tiles, unique, plans, res, trace) ==
  /\ pc' = "done"
  /\ carrier' = c
  /\ html_content' = content
  /\ soup' = cleaned
  /\ plan_tiles' = tiles
  /\ unique_plans' = unique
  /\ normalized_plans' = plans
  /\ result' = IF history # NoCall /\ history.raised = "none"
               THEN [res EXCEPT !.stats.tiles_before_dedup =
                                  @ + history.result.stats.tiles_before_dedup]
               ELSE res
  /\ raised' = "none"
  /\ steps' = trace
  /\ UNCHANGED <<pipeline, extractor>>

Returned(c, content, cleaned, tiles, unique, plans, res, trace) ==
  /\ pc' = "done"
  /\ carrier' = c
  /\ html_content' = content
  /\ soup' = cleaned
  /\ plan_tiles' = tiles
  /\ unique_plans' = unique
  /\ normalized_plans' = plans
  /\ result' = res
  /\ raised' = "none"
  /\ steps' = trace
  /\ UNCHANGED <<pipeline, extractor>>

Raised(c, content, cleaned, tiles, unique, plans, exc, trace) ==
  /\ pc' = "done"
  /\ carrier' = c
  /\ html_content' = content
  /\ soup' = cleaned
  /\ plan_tiles' = tiles
  /\ unique_plans' = unique
  /\ normalized_plans' = plans
  /\ result' = NoResult
  /\ raised' = exc
  /\ steps' = trace
  /\ UNCHANGED <<pipeline, extractor>>

IsRogersTile(n) ==
  Attr(n, "class") \in {"dsa-vertical-tile", "ds-tile"} \/ n.tag \in {"ds-tile", "dsa-vertical-tile"}

strip_rogers(content) ==
     \E tiles \in {SelectSeq(content, IsRogersTile)} :
     \E unique \in {deduplicate_plans(tiles)} :
     \E plans \in {normalize_all(unique, [i \in 1..Len(tiles) |-> normalize_plan(tiles[i])])} :
          IF tiles = <<>>
          THEN Returned("rogers", content, content, tiles, <<>>, <<>>,
                        basic_fallback(content, NodesLen(content)), NotLocated)
          ELSE Returned("rogers", content, content, tiles, unique, plans,
                        final_result(content, plans, Len(tiles), unique),
                        Extracted \o <<"build">>)

strip_rogers_html ==
  /\ pc = "idle"
  /\ \E content \in Docs(RogersNodes) \cup {ScenarioA} : strip_rogers(content)
  /\ UNCHANGED history

IsTelusTile(n) == Attr(n, "data_testid") = "mfe-rate-plan-tile-1-container"
IsTelusCard(n) == Attr(n, "data_testid") = "mfe-rate-plan-card-id-1"

\* plan_cards.append(parent) unless parent in plan_cards (equality of content)
RECURSIVE append_new(_, _)
append_new(cards, plan_cards) ==
  IF cards = <<>> THEN plan_cards
  ELSE IF \E k \in 1..Len(plan_cards) : plan_cards[k] = Head(cards)
       THEN append_new(Tail(cards), plan_cards)
  ELSE append_new(Tail(cards), Append(plan_cards, Head(cards)))

IsH3Card(n) == n.tag = "div" /\ Len(SelectKids(n.kids, IsH3)) = 1

\* lines 523-534: the <div>s around exactly one <h3>, none taken twice
telus_plan_cards(cleaned) == append_new(SelectSeq(cleaned, IsH3Card), <<>>)

strip_telus(content) ==
     \E tiles \in {IF SelectSeq(content, IsTelusTile) # <<>>
                    THEN SelectSeq(content, IsTelusTile) ELSE SelectSeq(content, IsTelusCard)} :
     \E unique \in {deduplicate_telus_plans(tiles)} :
     \E plans \in {normalize_all(unique,
                                  [i \in 1..Len(tiles) |-> normalize_telus_plan(tiles[i])])} :
     \E cleaned \in {telus_clean(content)} :
     \E plan_cards \in {telus_plan_cards(cleaned)} :
     \E original_size \in {NodesLen(content)} :
     \E final_size \in {NodesLen(cleaned)} :
          IF unique # <<>>
          THEN Returned("telus", content, cleaned, tiles, unique, plans,
                        final_result(content, plans, Len(tiles), unique),
                        Stripped \o <<"build">>)
          ELSE IF plan_cards # <<>>
          THEN Returned("telus", content, cleaned, plan_cards,
                        [k \in 1..Len(plan_cards) |-> k], <<>>,
                        final_result(content, <<>>, Len(plan_cards), plan_cards),
                        Stripped \o <<"locate", "build">>)
          ELSE IF original_size = 0
          THEN Raised("telus", content, cleaned, tiles, <<>>, <<>>, "ZeroDivisionError",
                      Stripped \o <<"locate">>)
          ELSE Returned("telus", content, cleaned, tiles, <<>>, <<>>,
                        [html |-> Document(cleaned),
                         stats |-> [original_size |-> original_size,
                                    stripped_size |-> final_size,
                                    original_tokens |-> original_size \div 4,
                                    stripped_tokens |-> final_size \div 4,
                                    tokens_saved |-> (original_size \div 4) - (final_size \div 4),
                                    reduction_percent |-> reduction_of(original_size, final_size),
                                    plan_count |-> 0,
                                    tiles_before_dedup |-> 0,
                                    tiles_after_dedup |-> 0]],
                        Stripped \o <<"locate">>)

strip_telus_html ==
  /\ pc = "idle"
  /\ \E content \in Docs(TelusNodes) : strip_telus(content)
  /\ UNCHANGED history

IsBellContainer(n) == "data_product_id" \in DOMAIN n.attrs

strip_bell(content) ==
     \E tiles \in {SelectSeq(content, IsBellContainer)} :
     \E unique \in {deduplicate_bell_plans(tiles)} :
     \E plans \in {normalize_all(unique,
                                  [i \in 1..Len(tiles) |-> normalize_bell_plan(tiles[i])])} :
          IF tiles = <<>>
          THEN Returned("bell", content, content, tiles, <<>>, <<>>,
                        basic_fallback(content, NodesLen(content)), NotLocated)
          ELSE Returned("bell", content, bell_clean(content), tiles, unique, plans,
                        final_result(content, plans, Len(tiles), unique),
                        Stripped \o <<"build">>)

strip_bell_html ==
  /\ pc = "idle"
  /\ \E content \in Docs(BellNodes) : strip_bell(content)
  /\ UNCHANGED history

IsPlanComponent(n) == Attr(n, "data_testid") = "planComponent"

strip_freedom(content) ==
     \E tiles \in {SelectSeq(content, IsPlanComponent)} :
     \E unique \in {deduplicate_freedom_plans(tiles)} :
     \E plans \in {normalize_all(unique,
                                  [i \in 1..Len(tiles) |-> normalize_freedom_plan(tiles[i])])} :
          IF tiles = <<>>
          THEN Returned("freedom", content, content, tiles, <<>>, <<>>,
                        basic_fallback(content, NodesLen(content)), NotLocated)
          ELSE Returned("freedom", content, freedom_clean(content), tiles, unique, plans,
                        final_result(content, plans, Len(tiles), unique),
                        Stripped \o <<"build">>)

strip_freedom_html ==
  /\ pc = "idle"
  /\ \E content \in Docs(FreedomNodes) : strip_freedom(content)
  /\ UNCHANGED history

IsKoodoGroup(n) == Attr(n, "data_testid") = "mfe-rate-plan-tile-group-1"
IsKoodoTile(n) == Attr(n, "data_testid") = "mfe-rate-plan-tile-1-container"

\* lines 1470-1471
koodo_group_name(group) ==
  LET IsGroupName(e) == Attr(e, "data_testid") = "mfe-rate-plan-group-name"
      g == FindKid(group.kids, IsGroupName)
  IN IF g # 0 THEN group.kids[g].text ELSE <<"Unknown">>

\* lines 1467-1487: the tiles of the groups that have a tiles container
RECURSIVE all_plan_tiles_with_groups(_)
all_plan_tiles_with_groups(groups) ==
  IF groups = <<>> THEN <<>>
  ELSE LET group == Head(groups)
           tiles == SelectSeq(group.sub, IsKoodoTile)
       IN (IF group.container
           THEN [i \in 1..Len(tiles) |->
                   [tile |-> tiles[i], group_name |-> koodo_group_name(group)]]
           ELSE <<>>)
          \o all_plan_tiles_with_groups(Tail(groups))

strip_koodo(content) ==
     \E plan_groups \in {SelectSeq(content, IsKoodoGroup)} :
     \E direct \in {SelectSeq(content, IsKoodoTile)} :
     \E with_container \in {SelectSeq(plan_groups, LAMBDA g : g.container)} :
     \E items \in {IF plan_groups = <<>>
                    THEN [i \in 1..Len(direct) |-> [tile |-> direct[i], group_name |-> NoText]]
                    ELSE all_plan_tiles_with_groups(plan_groups)} :
     \E unique \in {IF plan_groups = <<>> THEN deduplicate_koodo_plans(direct)
                     ELSE deduplicate_koodo_plans_with_groups(items)} :
     \E plans \in {normalize_all(unique,
                      [i \in 1..Len(items) |->
                         normalize_koodo_plan(items[i].tile, items[i].group_name)])} :
     \* len(plan_tiles): the tiles of the last group that has a container
     \E before \in {IF plan_groups = <<>> THEN Len(direct)
                     ELSE IF with_container = <<>> THEN 0
                     ELSE Len(SelectSeq(with_container[Len(with_container)].sub, IsKoodoTile))} :
          IF plan_groups = <<>> /\ direct = <<>>
          THEN Returned("koodo", content, content, <<>>, <<>>, <<>>,
                        basic_fallback(content, NodesLen(content)), NotLocated)
          ELSE IF plan_groups # <<>> /\ with_container = <<>>
          THEN Raised("koodo", content, freedom_clean(content), items, unique, plans,
                      "UnboundLocalError", Stripped \o <<"build">>)
          ELSE Returned("koodo", content, freedom_clean(content), items, unique, plans,
                        final_result(content, plans, before, unique),
                        Stripped \o <<"build">>)

strip_koodo_html ==
  /\ pc = "idle"
  /\ \E content \in Docs(KoodoNodes) \cup {ScenarioC} : strip_koodo(content)
  /\ UNCHANGED history

\* lines 1826-1853: one container per qualifying plan-name span
RECURSIVE fido_plan_containers(_)
fido_plan_containers(nodes) ==
  IF nodes = <<>> THEN <<>>
  ELSE LET n == Head(nodes)
           Qualifies(e) == IsTitleSpan(e) /\ fido_looks_like_plan(Strip(e.text))
           spans == SelectSeq(n.kids, Qualifies)
       IN (IF n.tag \in {"div", "article", "section"} /\ FindKid(n.kids, IsFidoPrice) # 0
           THEN [i \in 1..Len(spans) |-> n] ELSE <<>>)
          \o fido_plan_containers(Tail(nodes))

strip_fido(content) ==
     \E tiles \in {fido_plan_containers(content)} :
     \E unique \in {deduplicate_fido_plans(tiles)} :
     \E plans \in {normalize_all(unique,
                                  [i \in 1..Len(tiles) |-> normalize_fido_plan(tiles[i])])} :
          IF tiles = <<>>
          THEN Returned("fido", content, content, tiles, <<>>, <<>>,
                        basic_fallback(content, NodesLen(content)), NotLocated)
          ELSE Returned("fido", content, freedom_clean(content), tiles, unique, plans,
                        final_result(content, plans, Len(tiles), unique),
                        Stripped \o <<"build">>)

strip_fido_html ==
  /\ pc = "idle"
  /\ \E content \in Docs(FidoNodes) : strip_fido(content)
  /\ UNCHANGED history

RECURSIVE AllKids(_)
AllKids(nodes) == IF nodes = <<>> THEN <<>> ELSE Head(nodes).kids \o AllKids(Tail(nodes))

\* lines 2074-2080: the inner <div class="plan">, else the element itself
virgin_plan_div(element) ==
  LET IsPlanDiv(n) == n.tag = "div" /\ Attr(n, "class") = "plan"
      sub == IF "sub" \in DOMAIN element THEN element.sub ELSE <<>>
      divs == SelectSeq(sub, IsPlanDiv)
  IN IF divs # <<>> THEN divs[1]
     ELSE [tag |-> element.tag, attrs |-> element.attrs, kids |-> element.kids \o AllKids(sub)]

\* get_text(strip=True): the stripped strings joined without a separator
RECURSIVE ConcatTexts(_)
ConcatTexts(es) == IF es = <<>> THEN <<>> ELSE Strip(Head(es).text) \o ConcatTexts(Tail(es))

\* lines 2087-2099, for documents whose <div>s are all top-level nodes
virgin_heuristic(content) ==
  LET Looks(n) ==
        LET text == ConcatTexts(n.kids) IN
        /\ n.tag = "div"
        /\ \E i \in 1..Len(text) : text[i] = "$" /\ IsDigits(Tok(text, i + 1))
        /\ \/ GbMbAmount(text) # NoText \/ HasPayPerUse(text) \/ HasTalkAndText(text)
           \/ \E i \in 1..Len(text) : LowerTok(text[i]) = "basic"
        /\ 100 < TextLen(text) /\ TextLen(text) < 3000
        /\ TextLen(JoinTexts(AllKids(content))) < 10000
  IN SelectSeq(content, Looks)

strip_virgin(content) ==
     \E elements \in {SelectSeq(content, LAMBDA n : n.tag = "plan-container")} :
     \E tiles \in {IF elements # <<>>
                    THEN [i \in 1..Len(elements) |-> virgin_plan_div(elements[i])]
                    ELSE virgin_heuristic(content)} :
     \E unique \in {deduplicate_virgin_plans(tiles)} :
     \E plans \in {normalize_all(unique,
                                  [i \in 1..Len(tiles) |-> normalize_virgin_plan(tiles[i])])} :
          IF tiles = <<>>
          THEN Returned("virgin", content, content, tiles, <<>>, <<>>,
                        basic_fallback(content, NodesLen(content)), NotLocated)
          ELSE Returned("virgin", content, virgin_clean(content), tiles, unique, plans,
                        final_result(content, plans, Len(tiles), unique),
                        Stripped \o <<"build">>)

strip_virgin_html ==
  /\ pc = "idle"
  /\ \E content \in Docs(VirginNodes) : strip_virgin(content)
  /\ UNCHANGED history

\* the call has returned (or raised); nothing of it is kept: the class has
\* no attribute and the module no global, every method is a @staticmethod
Forget ==
  /\ pc = "done"
  /\ pc' = "idle"
  /\ carrier' = "none"
  /\ html_content' = <<>>
  /\ soup' = <<>>
  /\ plan_tiles' = <<>>
  /\ unique_plans' = <<>>
  /\ normalized_plans' = <<>>
  /\ result' = NoResult
  /\ raised' = "none"
  /\ steps' = <<>>
  /\ UNCHANGED <<pipeline, extractor>>

Return == Forget /\ UNCHANGED history

Next ==
  \/ strip_rogers_html
  \/ strip_telus_html
  \/ strip_bell_html
  \/ strip_freedom_html
  \/ strip_koodo_html
  \/ strip_fido_html
  \/ strip_virgin_html
  \/ Return

Spec == Init /\ [][Next]_vars

(***************************************************************************)
(* A caller that runs the strip functions one after the other, in any      *)
(* order, and keeps the input and the outcome of one call to compare a     *)
(* later call with.                                                        *)
(***************************************************************************)
MaxCallNodes == 1

CallDocs(nodes) == UNION {[1..n -> nodes] : n \in 0..MaxCallNodes}

Call ==
  /\ pc = "idle"
  /\ \/ \E content \in CallDocs(RogersNodes) : strip_rogers(content)
     \/ \E content \in CallDocs(TelusNodes) : strip_telus(content)
     \/ \E content \in CallDocs(BellNodes) : strip_bell(content)
     \/ \E content \in CallDocs(FreedomNodes) : strip_freedom(content)
     \/ \E content \in CallDocs(KoodoNodes) : strip_koodo(content)
     \/ \E content \in CallDocs(FidoNodes) : strip_fido(content)
     \/ \E content \in CallDocs(VirginNodes) : strip_virgin(content)
  /\ UNCHANGED history

\* the caller keeps what it passed and what it got
Remember ==
  /\ history = NoCall
  /\ Forget
  /\ history' = [carrier |-> carrier, html_content |-> html_content,
                 result |-> result, raised |-> raised]

NextCalls == Call \/ Return \/ Remember

SpecCalls == Init /\ [][NextCalls]_vars

(***************************************************************************)
(* The strip functions called on a document of one tile that carries a     *)
(* list of items: the texts the normalizers sort into the features, the    *)
(* discounts and the promotions of the record.                             *)
(***************************************************************************)
MaxItems == 3

UnlimitedText == <<"Unlimited", " ", "text">>
PriceLock == <<"Price", " ", "lock">>
BonusOffer == <<"Bonus", " ", "offer">>
AutopayDiscount == <<"Autopay", " ", "discount">>

ItemTextChoices == {UnlimitedText, PriceLock, BonusOffer, AutopayDiscount}

ItemLists == UNION {[1..n -> ItemTextChoices] : n \in 0..MaxItems}

Items(texts) == [k \in 1..Len(texts) |-> E("li", texts[k])]

\* one valid tile of the carrier with the items in it
ListedTile(c, texts) ==
  CASE c = "rogers" ->
         RogersTile(<<E("p", <<"Essentials">>), E("ds-price", <<"$", "70">>),
                      E("p", <<"Features">>)>> \o Items(texts))
    [] c = "telus" -> TelusTile(<<E("h3", <<"Essentials">>), Lockup70, Bucket60>> \o Items(texts))
    [] c = "bell" ->
         BellContainer(<<E("h3", <<"Essentials">>), E("span", <<"$", "70", "/", "mo">>)>>
                       \o Items(texts))
    [] c = "freedom" ->
         FreedomComponent(<<"10", "GB", " ", "5G+">>,
                          <<E("span", <<"$", "34", "/", "mo">>)>> \o Items(texts))
    [] c = "koodo" ->
         KoodoGroup(<<GroupName(<<"Canada Wide Plans">>)>>, TRUE,
                    <<KoodoTile(Koodo10.kids \o Items(texts))>>)
    [] c = "fido" ->
         FidoContainer(<<Title(<<"10", " ", "GB", " ", "-", " ", "BYOP", " ", "Plan">>),
                         EC("div", "ds-price", <<"$", "34", "/", "mo">>)>> \o Items(texts))
    [] c = "virgin" ->
         PlanContainer(<<E("h3", <<"Basic">>), Monthly45,
                         EC("span", "planFeatures", <<"10", " ", "GB", " ", "data">>)>>
                       \o Items(texts))

StripListed ==
  /\ pc = "idle"
  /\ \E texts \in ItemLists :
       \/ strip_rogers(<<ListedTile("rogers", texts)>>)
       \/ strip_telus(<<ListedTile("telus", texts)>>)
       \/ strip_bell(<<ListedTile("bell", texts)>>)
       \/ strip_freedom(<<ListedTile("freedom", texts)>>)
       \/ strip_koodo(<<ListedTile("koodo", texts)>>)
       \/ strip_fido(<<ListedTile("fido", texts)>>)
       \/ strip_virgin(<<ListedTile("virgin", texts)>>)
  /\ UNCHANGED history

NextLists == StripListed \/ Return

SpecLists == Init /\ [][NextLists]_vars

(***************************************************************************)
(* The renderer called on its own: _build_final_html is a static method    *)
(* of a list of plan records.  The records are of the shape the            *)
(* normalizers build: name, price and data are non-empty strings ('unknown'*)
(* when nothing was extracted), regular_price, network and roaming are a   *)
(* string or None, features, discounts and promotions are lists; a caller  *)
(* may add bundle_price.                                                   *)
(***************************************************************************)
MaxPlans == 2

Dollars70 == <<"$", "70">>
Dollars85 == <<"$", "85", ".", "00">>

\* the fields after the data amount: none, all of them, some of them
RenderExtras ==
  {[bundle_price |-> NoText, network |-> NoText, roaming |-> NoText,
    features |-> <<>>, discounts |-> <<>>, promotions |-> <<>>],
   [bundle_price |-> <<"$", "60">>, network |-> <<"5G+">>, roaming |-> <<"Canada", "-", "US">>,
    features |-> <<<<"Unlimited", " ", " ", "Talk">>, <<" ">>, <<"Text">>>>,
    discounts |-> <<<<"$", "5", " ", "auto-pay">>>>,
    promotions |-> <<<<"Get", " ", "more">>, <<"Price", " ", "lock">>>>],
   [bundle_price |-> NoText, network |-> NoText, roaming |-> <<"Canada", "-", "US">>,
    features |-> <<<<" ">>>>, discounts |-> <<>>, promotions |-> <<<<"Get", " ", "more">>>>]}

RenderRecords ==
  {r \in {[name |-> n, price |-> p, regular_price |-> rp, data |-> d] @@ x :
            n \in {<<"Basic">>, <<"Popular">>}, p \in {Unknown, Dollars70},
            rp \in {NoText, Dollars70, Dollars85}, d \in {Unknown, <<"60", " ", "GB">>},
            x \in RenderExtras} :
     r.name = <<"Popular">> => (r.features = <<>> /\ r.roaming = NoText)}

RenderLists == UNION {[1..n -> RenderRecords] : n \in 0..MaxPlans}

Render ==
  /\ pc = "idle"
  /\ \E plans \in RenderLists :
       /\ pc' = "done"
       /\ normalized_plans' = plans
       /\ result' = [html |-> build_final_html(plans), stats |-> <<>>]
       /\ steps' = <<"build">>
  /\ UNCHANGED <<carrier, html_content, soup, plan_tiles, unique_plans, raised, history,
                 pipeline, extractor>>

NextRender == Render \/ Return

SpecRender == Init /\ [][NextRender]_vars

(***************************************************************************)
(* UnifiedPipeline (src/src/unified_pipeline.py): the constructor, the     *)
(* carrier loop of run_complete_pipeline and the steps of                  *)
(* _process_carrier.  A dict is a sequence of [key, value] entries in      *)
(* insertion order.  What a scraper or the LLM step returns, and whether   *)
(* an exception escapes _process_carrier, is chosen by the environment.    *)
(***************************************************************************)
MaxCarriers == 2

\* the keys of UnifiedPipeline.CARRIERS, in the order of the dict
CARRIERS == <<"telus", "rogers", "bell", "freedom", "koodo", "fido", "virgin">>

IsRegistered(c) == \E k \in 1..Len(CARRIERS) : CARRIERS[k] = c

\* the carriers argument of the constructor: None or a list
RequestedNames == {"telus", "rogers", "acme"}
Requests == UNION {[1..n -> RequestedNames] : n \in 0..MaxCarriers}

HasKey(d, k) == \E j \in 1..Len(d) : d[j].key = k

DictGet(d, k) == d[CHOOSE j \in 1..Len(d) : d[j].key = k].value

\* a store that adds an entry even when the key is present
DictAppend(d, k, v) == Append(d, [key |-> k, value |-> v])

\* d[k] = v
DictSet(d, k, v) ==
  IF HasKey(d, k)
  THEN [j \in 1..Len(d) |-> IF d[j].key = k THEN [key |-> k, value |-> v] ELSE d[j]]
  ELSE Append(d, [key |-> k, value |-> v])

\* lines 80-113
UnifiedPipeline ==
  /\ pipeline = NoPipeline
  /\ \E carriers \in Requests, skip_scraping \in BOOLEAN, skip_llm \in BOOLEAN :
       pipeline' = [pc |-> "constructed",
                    carriers |-> IF carriers # <<>> THEN carriers ELSE CARRIERS,
                    skip_scraping |-> skip_scraping,
                    skip_llm |-> skip_llm,
                    i |-> 0,
                    all_results |-> <<>>,
                    result |-> <<>>,
                    processed |-> <<>>,
                    global_stats |-> <<>>]
  /\ UNCHANGED <<stripper, extractor>>

\* lines 115-130: all_results = {} and the loop is entered
run_complete_pipeline ==
  /\ pipeline.pc = "constructed"
  /\ pipeline' = [pipeline EXCEPT !.pc = "loop", !.i = 1]
  /\ UNCHANGED <<stripper, extractor>>

\* lines 134-136: "Unknown carrier ..., skipping"; continue
skip_unknown_carrier ==
  /\ pipeline.pc = "loop" /\ pipeline.i <= Len(pipeline.carriers)
  /\ ~IsRegistered(pipeline.carriers[pipeline.i])
  /\ pipeline' = [pipeline EXCEPT !.i = @ + 1]
  /\ UNCHANGED <<stripper, extractor>>

\* lines 241-252: _process_carrier is entered and builds its result
process_carrier ==
  /\ pipeline.pc = "loop" /\ pipeline.i <= Len(pipeline.carriers)
  /\ IsRegistered(pipeline.carriers[pipeline.i])
  /\ pipeline' = [pipeline EXCEPT
                    !.pc = "scraping",
                    !.result = [carrier |-> pipeline.carriers[pipeline.i],
                                success |-> FALSE,
                                steps |-> <<>>]]
  /\ UNCHANGED <<stripper, extractor>>

\* result['steps'][name] = step_result
WithStep(res, name, step_result) ==
  [res EXCEPT !.steps = DictSet(@, name, step_result)]

\* lines 146-147: _process_carrier returned; p is the pipeline at the return
Stored(p, res) ==
  [p EXCEPT !.pc = "loop", !.i = @ + 1,
            !.all_results = DictSet(@, res.carrier, res),
            !.result = <<>>,
            !.processed = Append(@, [carrier |-> res.carrier, raised |-> FALSE])]

\* what _step_1_scrape_and_strip may return (lines 314-321)
ScrapeResults == {[success |-> TRUE], [success |-> FALSE]}

\* a step 1 that goes on to the LLM step whatever the scraper returned
proceeds_after_any_scraping(scrape_result) == TRUE

\* line 259: "if not scrape_result.get('success')" returns the result
proceeds_after_scraping(scrape_result) == scrape_result.success

\* lines 254-264: Step 1
step_1 ==
  /\ pipeline.pc = "scraping"
  /\ IF pipeline.skip_scraping
     THEN pipeline' = [pipeline EXCEPT
                         !.pc = "llm",
                         !.result = WithStep(@, "scraping",
                                             [success |-> TRUE, skipped |-> TRUE])]
     ELSE \E scrape_result \in ScrapeResults :
            IF proceeds_after_scraping(scrape_result)
            THEN pipeline' = [pipeline EXCEPT
                                !.pc = "llm",
                                !.result = WithStep(@, "scraping", scrape_result)]
            ELSE pipeline' = Stored(pipeline,
                                    [carrier |-> pipeline.result.carrier,
                                     success |-> FALSE,
                                     steps |-> DictSet(pipeline.result.steps, "scraping",
                                                       scrape_result),
                                     error |-> "Scraping failed"])
  /\ UNCHANGED <<stripper, extractor>>

\* what _step_2_llm_extraction may return (lines 340, 347, 396-403)
LlmResults == {[success |-> TRUE], [success |-> FALSE]}

\* lines 266-276: Step 2, then success = True and the result is returned
step_2 ==
  /\ pipeline.pc = "llm"
  /\ \E llm_result \in (IF pipeline.skip_llm THEN {[success |-> TRUE, skipped |-> TRUE]}
                        ELSE LlmResults) :
       pipeline' = Stored(pipeline,
                          [WithStep(pipeline.result, "llm_extraction", llm_result)
                             EXCEPT !.success = TRUE])
  /\ UNCHANGED <<stripper, extractor>>

\* lines 148-150: an exception escaped _process_carrier
process_carrier_raises ==
  /\ pipeline.pc \in {"scraping", "llm"}
  /\ pipeline' = [pipeline EXCEPT
                    !.pc = "loop", !.i = @ + 1,
                    !.all_results = DictSet(@, pipeline.result.carrier,
                                            [success |-> FALSE, error |-> "exception"]),
                    !.result = <<>>,
                    !.processed = Append(@, [carrier |-> pipeline.result.carrier,
                                             raised |-> TRUE])]
  /\ UNCHANGED <<stripper, extractor>>

\* lines 152-165: after the loop the results are consolidated and counted
consolidate ==
  /\ pipeline.pc = "loop" /\ pipeline.i > Len(pipeline.carriers)
  /\ pipeline' = [pipeline EXCEPT
                    !.pc = "done",
                    !.global_stats =
                       [carriers_processed |-> Len(pipeline.all_results),
                        successful_carriers |->
                          Len(SelectSeq(pipeline.all_results,
                                        LAMBDA entry : entry.value.success))]]
  /\ UNCHANGED <<stripper, extractor>>

NextPipeline ==
  \/ UnifiedPipeline
  \/ run_complete_pipeline
  \/ skip_unknown_carrier
  \/ process_carrier
  \/ step_1
  \/ step_2
  \/ process_carrier_raises
  \/ consolidate

SpecPipeline == Init /\ [][NextPipeline]_vars

(***************************************************************************)
(* ClaudePlanExtractor._call_with_retries                                  *)
(* (src/src/llm_plan_extractor_claude.py).  What one call of               *)
(* client.messages.create gives is chosen by the environment: a response,  *)
(* a rate-limit error, another API error (status_code 0 stands for an      *)
(* error without status code) or an exception that is not an API error.    *)
(* calls lists the outcomes of the API calls made so far, slept the delays *)
(* of time.sleep in seconds.                                               *)
(***************************************************************************)
max_retries == 5
base_delay == 2

StatusCodes == {0, 400, 500, 599, 600}

Outcomes ==
  {[kind |-> "response"], [kind |-> "RateLimitError"], [kind |-> "Exception"]}
  \cup {[kind |-> "APIError", status_code |-> code] : code \in StatusCodes}

RECURSIVE Pow2(_)
Pow2(n) == IF n = 0 THEN 1 ELSE 2 * Pow2(n - 1)

\* a wrapper that sleeps and retries after every API error
retries_after_any_api_error(outcome) == outcome.kind \in {"RateLimitError", "APIError"}

\* lines 409-421: the errors after which the loop sleeps and goes on
retries_after(outcome) ==
  \/ outcome.kind = "RateLimitError"
  \/ /\ outcome.kind = "APIError"
     /\ outcome.status_code # 0
     /\ 500 <= outcome.status_code /\ outcome.status_code < 600

\* lines 411-412 and 418-419: min(base_delay * 2 ** (attempt - 1), 60 or 30)
delay_of(outcome, attempt) ==
  IF base_delay * Pow2(attempt - 1) < (IF outcome.kind = "RateLimitError" THEN 60 ELSE 30)
  THEN base_delay * Pow2(attempt - 1)
  ELSE (IF outcome.kind = "RateLimitError" THEN 60 ELSE 30)

\* line 400: the wrapper is called
call_with_retries ==
  /\ extractor.pc = "idle"
  /\ extractor' = [pc |-> "attempt", attempt |-> 1, calls |-> <<>>, slept |-> <<>>]
  /\ UNCHANGED <<stripper, pipeline>>

\* lines 406-423: one pass of the loop
guarded_attempt ==
  /\ extractor.pc = "attempt" /\ extractor.attempt <= max_retries
  /\ \E outcome \in Outcomes :
       extractor' =
         IF outcome.kind = "response"
         THEN [extractor EXCEPT !.pc = "returned", !.calls = Append(@, outcome)]
         ELSE IF retries_after(outcome)
         THEN [extractor EXCEPT !.attempt = @ + 1, !.calls = Append(@, outcome),
                                !.slept = Append(@, delay_of(outcome, extractor.attempt))]
         ELSE [extractor EXCEPT !.pc = "raised", !.calls = Append(@, outcome)]
  /\ UNCHANGED <<stripper, pipeline>>

\* line 425: the final attempt without catching
final_attempt ==
  /\ extractor.pc = "attempt" /\ extractor.attempt > max_retries
  /\ \E outcome \in Outcomes :
       extractor' = [extractor EXCEPT
                       !.pc = IF outcome.kind = "response" THEN "returned" ELSE "raised",
                       !.calls = Append(@, outcome)]
  /\ UNCHANGED <<stripper, pipeline>>

NextRetries == call_with_retries \/ guarded_attempt \/ final_attempt

\* a call of client.messages.create returns or raises and time.sleep ends,
\* so a started wrapper takes its next step
SpecRetries ==
  Init /\ [][NextRetries]_vars /\ WF_vars(guarded_attempt) /\ WF_vars(final_attempt)

(***************************************************************************)
(* What a candidate is to its carrier: the key of the deduplication pass,  *)
(* and the name, price and data amount the normalization reads.            *)
(***************************************************************************)
TileOf(c, cand) == IF c = "koodo" THEN cand.tile ELSE cand

identity_key(c, cand) ==
  CASE c = "rogers" -> rogers_key(cand)
    [] c = "telus" -> telus_key(cand)
    [] c = "bell" -> bell_key(cand)
    [] c = "freedom" -> freedom_key(cand)
    [] c = "koodo" -> Key3(cand.group_name, koodo_data(cand.tile), koodo_price(cand.tile))
    [] c = "fido" -> fido_key(cand)
    [] c = "virgin" -> virgin_key(cand)

normalize_of(c, cand) ==
  CASE c = "rogers" -> normalize_plan(cand)
    [] c = "telus" -> normalize_telus_plan(cand)
    [] c = "bell" -> normalize_bell_plan(cand)
    [] c = "freedom" -> normalize_freedom_plan(cand)
    [] c = "koodo" -> normalize_koodo_plan(cand.tile, cand.group_name)
    [] c = "fido" -> normalize_fido_plan(cand)
    [] c = "virgin" -> normalize_virgin_plan(cand)

valid_name(c, cand) ==
  CASE c = "rogers" -> rogers_plan_name(cand) # NoText
    [] c = "telus" -> telus_dedup_name(cand) # NoText
    [] c = "bell" -> bell_key(cand) # Skip
    [] c = "freedom" -> freedom_plan_name(cand) # NoText /\ TextLen(freedom_plan_name(cand)) <= 50
    [] c = "koodo" -> normalize_koodo_plan(cand.tile, cand.group_name) # NoPlan
    [] c = "fido" -> fido_plan_name(cand) # NoText /\ TextLen(fido_plan_name(cand)) <= 50
    [] c = "virgin" -> ~SkippedByName(cand)

price_of(c, cand) ==
  CASE c = "rogers" -> extract_final_price(cand)
    [] c = "telus" -> extract_telus_price(cand)
    [] c = "bell" -> bell_primary_price(cand)
    [] c = "freedom" -> freedom_price(cand)
    [] c = "koodo" -> koodo_price(cand.tile)
    [] c = "fido" -> fido_final_price(cand)
    [] c = "virgin" -> virgin_price(cand)

data_of(c, cand) ==
  CASE c = "rogers" -> extract_data_amount(cand)
    [] c = "telus" -> extract_telus_data(cand)
    [] c = "bell" -> bell_data(cand)
    [] c = "freedom" -> bell_data(cand)
    [] c = "koodo" -> koodo_data(cand.tile)
    [] c = "fido" -> bell_data(cand)
    [] c = "virgin" -> virgin_data(cand)

Candidates == 1..Len(plan_tiles)
Emitted == 1..Len(normalized_plans)
Completed == pc = "done" /\ raised = "none"

\* the identity tuple of a record: scope, name, price, data amount
Scope(c, cand) == IF c = "koodo" THEN cand.group_name ELSE NoText
IdentityTuple(scope, r) == <<scope, r.name, r.price, r.data>>
TupleOfRecord(r) == IdentityTuple(Scope(carrier, plan_tiles[r.src]), r)
TupleOfCandidate(i) ==
  IdentityTuple(Scope(carrier, plan_tiles[i]), normalize_of(carrier, plan_tiles[i]))

\* Telus took its candidates from the headings of the cleaned document
ByHeadings ==
  carrier = "telus" /\ plan_tiles # <<>> /\ unique_plans # <<>>
  /\ plan_tiles = telus_plan_cards(soup)
  /\ \A i \in Candidates : ~IsTelusTile(plan_tiles[i]) /\ ~IsTelusCard(plan_tiles[i])

(***************************************************************************)
(* The claims.                                                             *)
(***************************************************************************)
\* C1: no two emitted records have the same identity tuple (scope, name,
\* price, data amount), the tuple being read from the emitted records.
C1_NoTwoRecordsShareIdentity ==
  \A k, l \in Emitted :
    k # l => TupleOfRecord(normalized_plans[k]) # TupleOfRecord(normalized_plans[l])

\* C2: among the located candidates that have the same identity key, the one
\* normalized and emitted is the earliest in located order; no later one
\* replaces it or is merged into it.
C2_EarliestCandidateIsEmitted ==
  LET key == [i \in Candidates |-> identity_key(carrier, plan_tiles[i])] IN
  \A k \in Emitted :
    LET r == normalized_plans[k]
        n == normalize_of(carrier, plan_tiles[r.src])
    IN /\ r.src \in Candidates
       /\ \A j \in Candidates : key[j] = key[r.src] => r.src <= j
       /\ \A f \in DOMAIN n : r[f] = n[f]
       /\ \A l \in Emitted : l # k => key[normalized_plans[l].src] # key[r.src]

\* a record was emitted from the first of several candidates with one key
C2_Witness ==
  \E k \in Emitted : \E j \in Candidates :
    /\ normalized_plans[k].src < j
    /\ identity_key(carrier, plan_tiles[j])
         = identity_key(carrier, plan_tiles[normalized_plans[k].src])

\* C3: located candidates with valid names that differ in name, price or
\* data amount (or group) all survive: every valid candidate's identity is
\* among the emitted records, as many records as distinct identities; four
\* tiles (Essentials, $70, 60 GB) and one (Essentials, $75, 100 GB) give 2.
C3_DistinctOffersAllSurvive ==
  Completed =>
    LET valid == {i \in Candidates : valid_name(carrier, plan_tiles[i])} IN
    /\ \A i \in valid :
         \E k \in Emitted : TupleOfRecord(normalized_plans[k]) = TupleOfCandidate(i)
    /\ Len(normalized_plans) = Cardinality({TupleOfCandidate(i) : i \in valid})
    /\ html_content = ScenarioA => result.stats.plan_count = 2

\* C4: the empty string as markup gives a result with plan_count 0 and no
\* exception, for every carrier.
C4_EmptyMarkupGivesNoPlans ==
  pc = "done" /\ html_content = <<>> => raised = "none" /\ result.stats.plan_count = 0

\* C5: every non-empty document, also one whose expected sub-structure is
\* missing, gives a result with markup and stats and no exception.
C5_NoExceptionOnAnyDocument ==
  pc = "done" /\ html_content # <<>> =>
    raised = "none" /\ DOMAIN result = {"html", "stats"} /\ result.stats # <<>>

\* the document with its noise removed, as the carrier's own steps remove it
cleaned_document(c, nodes) ==
  CASE c = "telus" -> telus_clean(nodes)
    [] c = "bell" -> bell_clean(nodes)
    [] c = "virgin" -> virgin_clean(nodes)
    [] OTHER -> freedom_clean(nodes)

\* C6: when zero candidate tiles are located, the returned markup is the
\* cleaned document (buttons, footnote markers, non-semantic attributes and
\* empty containers removed), not the raw input, and plan_count is 0.
C6_FallbackReturnsCleanedDocument ==
  Completed /\ plan_tiles = <<>> =>
    /\ result.html = Document(cleaned_document(carrier, html_content))
    /\ result.stats.plan_count = 0

\* the labels the name heuristics reject
denylist == rogers_labels \cup telus_labels \cup {<<p>> : p \in bell_skip_phrases}

\* C7: every emitted record's name is non-empty, is not the placeholder
\* "Unknown" and is no denylisted label.
C7_EmittedNamesAreValid ==
  \A k \in Emitted :
    /\ normalized_plans[k].name # NoText
    /\ normalized_plans[k].name # <<"Unknown">>
    /\ Lower(normalized_plans[k].name) \notin denylist

IsCanonicalPrice(p) == p # <<>> /\ p[1] = "$" /\ DollarAmountEnd(p, 1) = Len(p)

\* C9: every emitted price is "unknown" or "$" digits with an optional "."
\* digits part, with no "per month", "per mo" or "/mo" left in it.
C9_PricesAreCanonical ==
  \A k \in Emitted :
    normalized_plans[k].price = Unknown \/ IsCanonicalPrice(normalized_plans[k].price)

\* the tile's only price text is "$85.00 per month"
PricedPerMonth85(tile) ==
  /\ \E e \in 1..Len(tile.kids) : tile.kids[e].text = PerMonth85
  /\ \A e \in 1..Len(tile.kids) : HasTok(tile.kids[e].text, "$") => tile.kids[e].text = PerMonth85

FromPerMonth85 ==
  {k \in Emitted : PricedPerMonth85(TileOf(carrier, plan_tiles[normalized_plans[k].src]))}

ReadsStrippedAttributes == {"telus", "bell"}

(***************************************************************************)
(* C12: for the carriers that locate tiles by attributes the strip step    *)
(* removes, every locate, dedup and normalize step of a call comes before  *)
(* the first strip step of that call.                                      *)
(***************************************************************************)
C12_StrategyCompletesBeforeStripping ==
  (pc = "done" /\ carrier \in ReadsStrippedAttributes)
  => \A i, j \in 1..Len(steps) :
        (steps[j] = "strip" /\ steps[i] \in {"locate", "dedup", "normalize"}) => i < j

(***************************************************************************)
(* C13: for those carriers no tile is located on the stripped document:    *)
(* no locate step follows a strip step, and when the call reports tiles    *)
(* they were located before the strip step.                                *)
(***************************************************************************)
C13_NoDiscoveryOnStrippedDocument ==
  (pc = "done" /\ carrier \in ReadsStrippedAttributes)
  => /\ ~ \E j \in 1..Len(steps) : steps[j] = "locate" /\ "strip" \in {steps[i] : i \in 1..(j - 1)}
     /\ (raised = "none" /\ result.stats.tiles_after_dedup > 0)
           => Len(SelectSeq(steps, LAMBDA st : st = "locate")) = 1

\* the position of a line among the lines of one record
Rank(cls) ==
  CASE cls = "plan" -> 0
    [] cls = "h2" -> 1
    [] cls = "regular-price" -> 2
    [] cls = "price" -> 3
    [] cls = "bundle-price" -> 4
    [] cls = "data" -> 5
    [] cls = "network" -> 6
    [] cls = "roaming" -> 7
    [] cls = "features" -> 8
    [] cls = "discounts" -> 9
    [] cls = "promotions" -> 10
    [] cls = "/plan" -> 11

\* the record field a line shows
FieldOfLine(cls) ==
  CASE cls = "h2" -> "name"
    [] cls = "regular-price" -> "regular_price"
    [] cls = "price" -> "price"
    [] cls = "bundle-price" -> "bundle_price"
    [] cls = "data" -> "data"
    [] OTHER -> cls

\* the lines of the k-th record of a rendered markup: from the k-th
\* <div class="plan"> to the k-th </div>
RecordLines(lines, k) ==
  LET idx == [i \in 1..Len(lines) |-> i]
      starts == SelectSeq(idx, LAMBDA i : lines[i].cls = "plan")
      ends == SelectSeq(idx, LAMBDA i : lines[i].cls = "/plan")
  IN SubSeq(lines, starts[k], ends[k])

\* the lines of a record without the items and the ends of its lists
FieldLines(block) == SelectSeq(block, LAMBDA l : l.cls \notin {"li", "/ul"})

HasLine(block, cls) == \E i \in 1..Len(block) : block[i].cls = cls

Rendered == pc = "done" /\ steps = <<"build">>

(***************************************************************************)
(* C14: the rendered markup has one block per record, in the order of the  *)
(* record list; in a block the lines are the name, then the regular price, *)
(* the price, the bundle price, the data amount, the network, the roaming, *)
(* the features, the discounts and the promotions, each at most once and   *)
(* each showing the field of that record; list items stand in their list.  *)
(***************************************************************************)
C14_FieldsInFixedOrder ==
  Rendered =>
    LET lines == result.html.lines
        Count(cls) == Len(SelectSeq(lines, LAMBDA l : l.cls = cls))
    IN /\ Count("plan") = Len(normalized_plans)
       /\ Count("/plan") = Len(normalized_plans)
       /\ \A k \in 1..Len(normalized_plans) :
            LET block == RecordLines(lines, k)
                fields == FieldLines(block)
            IN /\ fields[1].cls = "plan" /\ fields[2].cls = "h2"
               /\ \A i \in 1..(Len(fields) - 1) : Rank(fields[i].cls) < Rank(fields[i + 1].cls)
               /\ \A i \in 2..(Len(fields) - 1) :
                    Rank(fields[i].cls) <= 7
                      => fields[i].text = normalized_plans[k][FieldOfLine(fields[i].cls)]
               /\ \A i \in 1..Len(block) :
                    block[i].cls \in {"li", "/ul"}
                      => i > 1 /\ block[i - 1].cls \in {"features", "discounts", "promotions", "li"}
               /\ \A i \in 1..Len(block) :
                    block[i].cls \in {"features", "discounts", "promotions"}
                      => \E j \in (i + 1)..Len(block) :
                            /\ block[j].cls = "/ul"
                            /\ \A m \in (i + 1)..(j - 1) : block[m].cls = "li"
                            /\ [m \in 1..(j - i - 1) |-> block[i + m].text]
                                 = (IF block[i].cls = "features"
                                    THEN SelectSeq([m \in 1..Len(normalized_plans[k].features) |->
                                                      clean_feature(normalized_plans[k].features[m])],
                                                   LAMBDA f : f # NoText)
                                    ELSE normalized_plans[k][block[i].cls])

\* two records are rendered, the first with every field, the second with few
C14_Witness ==
  /\ Rendered
  /\ Len(normalized_plans) = 2
  /\ Len(FieldLines(RecordLines(result.html.lines, 1))) = 12
  /\ Len(FieldLines(RecordLines(result.html.lines, 2))) = 3
  /\ normalized_plans[1].name # normalized_plans[2].name

HasResult == pc = "done" /\ carrier # "none" /\ raised = "none"

\* the number of records a returned markup shows
RenderedCount(html) ==
  IF html.kind = "document" THEN 0
  ELSE Len(SelectSeq(html.lines, LAMBDA l : l.cls = "plan"))

(***************************************************************************)
(* C16: in every result a strip function returns, original_size is the     *)
(* length of the input, stripped_size the length of the returned markup,   *)
(* original_tokens and stripped_tokens are these sizes divided by 4 and    *)
(* rounded down, tokens_saved is their difference and plan_count is the    *)
(* number of records in the returned markup.                               *)
(***************************************************************************)
C16_StatsAreConsistent ==
  HasResult =>
    LET stats == result.stats IN
    /\ stats.original_size = NodesLen(html_content)
    /\ stats.stripped_size = MarkupLen(result.html)
    /\ stats.original_tokens = stats.original_size \div 4
    /\ stats.stripped_tokens = stats.stripped_size \div 4
    /\ stats.tokens_saved = stats.original_tokens - stats.stripped_tokens
    /\ stats.plan_count = RenderedCount(result.html)
    /\ stats.plan_count = Len(normalized_plans)

\* two records are rendered and neither size is a multiple of 4
C16_Witness ==
  /\ HasResult
  /\ result.stats.plan_count = 2
  /\ result.stats.original_size % 4 # 0
  /\ result.stats.stripped_size % 4 # 0
  /\ result.stats.tokens_saved > 0

(***************************************************************************)
(* C17: in every result tiles_before_dedup is the number of candidate      *)
(* tiles located and tiles_after_dedup the number of candidates the        *)
(* deduplication kept, so that                                             *)
(* plan_count <= tiles_after_dedup <= tiles_before_dedup.                  *)
(***************************************************************************)
C17_TileCountsAreOrdered ==
  HasResult =>
    LET stats == result.stats IN
    /\ stats.tiles_before_dedup = Len(plan_tiles)
    /\ stats.tiles_after_dedup = Len(unique_plans)
    /\ stats.plan_count <= stats.tiles_after_dedup
    /\ stats.tiles_after_dedup <= stats.tiles_before_dedup

\* Koodo located its tiles in plan groups
InGroups == carrier = "koodo" /\ \A i \in Candidates : plan_tiles[i].group_name # NoText

\* the candidates i and j show the same price and the same data amount
SameOffer(i, j) ==
  /\ koodo_price(plan_tiles[i].tile) = koodo_price(plan_tiles[j].tile)
  /\ koodo_data(plan_tiles[i].tile) = koodo_data(plan_tiles[j].tile)

\* the emitted records of the group of candidate i that show its price and data
RecordsOf(i) ==
  {p \in Emitted :
     /\ plan_tiles[normalized_plans[p].src].group_name = plan_tiles[i].group_name
     /\ normalized_plans[p].price = koodo_price(plan_tiles[i].tile)
     /\ normalized_plans[p].data = koodo_data(plan_tiles[i].tile)}

\* the candidates the deduplication kept for the group, price and data of i
KeptOf(i) ==
  {u \in 1..Len(unique_plans) :
     /\ plan_tiles[unique_plans[u]].group_name = plan_tiles[i].group_name
     /\ SameOffer(unique_plans[u], i)}

(***************************************************************************)
(* C18: Koodo, tiles located in groups.  Two tiles with the same price and *)
(* data amount in groups of different names are both emitted, as two       *)
(* records of different names; two such tiles in the same group collapse   *)
(* to one kept candidate and one record.  The document with "$50" /        *)
(* "10 GB" in "Canada Wide Plans" and in "Starter Plans" gives 2 records.  *)
(***************************************************************************)
C18_SameOfferPerGroup ==
  (HasResult /\ InGroups) =>
    /\ \A i, j \in Candidates :
         (i # j /\ SameOffer(i, j)) =>
           IF plan_tiles[i].group_name # plan_tiles[j].group_name
           THEN (plan_tiles[i].group_name # <<"Unknown">>
                 /\ plan_tiles[j].group_name # <<"Unknown">>)
                => \E p \in RecordsOf(i), q \in RecordsOf(j) :
                      /\ p # q
                      /\ normalized_plans[p].name # normalized_plans[q].name
           ELSE /\ Cardinality(KeptOf(i)) = 1
                /\ Cardinality(RecordsOf(i)) <= 1
                /\ plan_tiles[i].group_name # <<"Unknown">> => Cardinality(RecordsOf(i)) = 1
    /\ html_content = ScenarioC => result.stats.plan_count = 2

\* one offer twice in a group and once more in a group of another name
C18_Witness ==
  /\ HasResult /\ InGroups
  /\ \E i, j, k \in Candidates :
       /\ i < j /\ j < k
       /\ SameOffer(i, j) /\ SameOffer(i, k)
       /\ plan_tiles[i].group_name = plan_tiles[j].group_name
       /\ plan_tiles[i].group_name # plan_tiles[k].group_name
       /\ plan_tiles[i].group_name # <<"Unknown">> /\ plan_tiles[k].group_name # <<"Unknown">>
       /\ Cardinality(RecordsOf(i)) = 1 /\ Cardinality(RecordsOf(k)) = 1

\* a heading that is a question or holds a phrase of the denylist
IsPrompt(name) ==
  HasTok(name, "?") \/ \E i \in 1..Len(name) : LowerTok(name[i]) \in bell_skip_phrases

(***************************************************************************)
(* C19: Bell.  A container whose heading has a "?" or a phrase of the      *)
(* conversational denylist yields no record: the deduplication does not    *)
(* keep it, no emitted record comes from it, under "Unknown" or any other  *)
(* name, and no emitted name is such a heading.                            *)
(***************************************************************************)
C19_BellPromptsYieldNoRecord ==
  (HasResult /\ carrier = "bell") =>
    /\ \A i \in Candidates :
         IsPrompt(bell_plan_name(plan_tiles[i])) =>
           /\ \A u \in 1..Len(unique_plans) : unique_plans[u] # i
           /\ \A p \in Emitted : normalized_plans[p].src # i
    /\ \A p \in Emitted : ~IsPrompt(normalized_plans[p].name)
    /\ result.stats.plan_count
         <= Cardinality({i \in Candidates : ~IsPrompt(bell_plan_name(plan_tiles[i]))})

\* a question, a denylisted heading with a price and a plan: one record
C19_Witness ==
  /\ HasResult /\ carrier = "bell"
  /\ Len(plan_tiles) = 3
  /\ \E i, j, k \in Candidates :
       /\ HasTok(bell_plan_name(plan_tiles[i]), "?")
       /\ IsPrompt(bell_plan_name(plan_tiles[j])) /\ ~HasTok(bell_plan_name(plan_tiles[j]), "?")
       /\ bell_primary_price(plan_tiles[j]) # Unknown
       /\ ~IsPrompt(bell_plan_name(plan_tiles[k]))
  /\ result.stats.plan_count = 1

\* the text holds a '$' directly followed by digits
HasDollarDigits(s) == \E i \in 1..Len(s) : s[i] = "$" /\ IsDigits(Tok(s, i + 1))

\* the text holds a '$', white space and digits (Bell matches r'\$\s*\d+')
HasSpacedDollarDigits(s) ==
  \E i \in 1..Len(s) : s[i] = "$" /\ Tok(s, i + 1) = " " /\ IsDigits(Tok(s, i + 2))

\* the text holds digits followed by '/mo', 'per mo' or 'per month'
HasMonthlyDigits(s) ==
  \E i \in 1..Len(s) :
    LET e == IF Tok(s, i + 1) = "." /\ IsDigits(Tok(s, i + 2)) THEN i + 2 ELSE i
        a == IF Tok(s, e + 1) = " " THEN e + 2 ELSE e + 1
        b == IF Tok(s, a + 1) = " " THEN a + 2 ELSE a + 1
    IN IsDigits(s[i]) /\ LowerTok(Tok(s, a)) \in {"/", "per"}
       /\ LowerTok(Tok(s, b)) \in {"mo", "month"}

\* get_text() of the tile the record p was normalized from
TileText(p) == JoinTexts(TileOf(carrier, plan_tiles[normalized_plans[p].src]).kids)

(***************************************************************************)
(* C20: for every carrier other than Bell, a record of a tile whose text   *)
(* holds no "$" followed by digits has the price "unknown".                *)
(***************************************************************************)
C20_BareDigitsNeverAPrice ==
  (HasResult /\ carrier # "bell") =>
    \A p \in Emitted : ~HasDollarDigits(TileText(p)) => normalized_plans[p].price = Unknown

(***************************************************************************)
(* C20, as the code has it: a record of a tile whose text holds no "$"     *)
(* followed by digits has the price "unknown" for every carrier but        *)
(* Freedom (Bell allowing white space after the "$"); a Freedom tile whose *)
(* text holds digits followed by "/mo", "per mo" or "per month" gets "$"   *)
(* and these digits as its price, with or without a "$" in the text.       *)
(***************************************************************************)
C20_OnlyFreedomTakesBareDigits ==
  HasResult =>
    \A p \in Emitted :
      ~HasDollarDigits(TileText(p)) =>
        IF carrier = "freedom" /\ HasMonthlyDigits(TileText(p))
        THEN /\ normalized_plans[p].price # Unknown
             /\ normalized_plans[p].price[1] = "$"
             /\ IsDigits(normalized_plans[p].price[2])
        ELSE IF carrier = "bell" /\ HasSpacedDollarDigits(TileText(p)) THEN TRUE
        ELSE normalized_plans[p].price = Unknown

\* a Freedom tile priced from "34/mo" beside one with no price at all
C20_Witness ==
  /\ HasResult /\ carrier = "freedom"
  /\ \E p, q \in Emitted :
       /\ ~HasDollarDigits(TileText(p)) /\ HasMonthlyDigits(TileText(p))
       /\ normalized_plans[p].price = <<"$", "34">>
       /\ ~HasDollarDigits(TileText(q)) /\ ~HasMonthlyDigits(TileText(q))
       /\ normalized_plans[q].price = Unknown

(***************************************************************************)
(* C21: the features list of every emitted record, for every carrier,      *)
(* contains no two equal strings and keeps the order of first appearance   *)
(* in the tile.                                                            *)
(***************************************************************************)
\* the position of the first item of the tile with this text, 0 if none
FirstItemAt(texts, text) ==
  IF \E i \in 1..Len(texts) : texts[i] = text
  THEN Min({i \in 1..Len(texts) : texts[i] = text}) ELSE 0

FeaturesOf(k) == Field(normalized_plans[k], "features")

ItemsOf(k) == ItemTexts(TileOf(carrier, plan_tiles[normalized_plans[k].src]).kids)

C21_FeaturesAreDistinctAndOrdered ==
  Completed =>
    \A k \in Emitted :
      /\ \A i, j \in 1..Len(FeaturesOf(k)) : i # j => FeaturesOf(k)[i] # FeaturesOf(k)[j]
      /\ \A i, j \in 1..Len(FeaturesOf(k)) :
           (i < j /\ FirstItemAt(ItemsOf(k), FeaturesOf(k)[i]) # 0
                  /\ FirstItemAt(ItemsOf(k), FeaturesOf(k)[j]) # 0)
             => FirstItemAt(ItemsOf(k), FeaturesOf(k)[i]) < FirstItemAt(ItemsOf(k), FeaturesOf(k)[j])

(***************************************************************************)
(* C24: each collected feature-like text of a tile is placed in exactly    *)
(* one of the three lists: in discounts if it matches a discount keyword,  *)
(* otherwise in promotions if it matches a promotion keyword, otherwise in *)
(* features; a text that matches a discount or promotion keyword does not  *)
(* also appear in features.  Stated for the carriers whose records have    *)
(* the three lists (Rogers, Bell).                                         *)
(***************************************************************************)
\* the keyword sets of the classification rule
discount_keyword_set ==
  {<<"discount">>, <<"savings">>, <<"price", " ", "lock">>, <<"bundle">>,
   <<"per", " ", "line">>, <<"autopay">>, <<"credit">>}

promotion_keyword_set == {<<"offer">>, <<"bonus">>, <<"included">>, <<"promo">>}

\* the text is an entry of the list f of record k
InList(k, f, text) ==
  \E i \in 1..Len(Field(normalized_plans[k], f)) : Field(normalized_plans[k], f)[i] = text

\* the list the rule puts the text in
ListFor(text) ==
  IF AnyKeyword(text, discount_keyword_set) THEN "discounts"
  ELSE IF AnyKeyword(text, promotion_keyword_set) THEN "promotions"
  ELSE "features"

C24_EachTextInExactlyOneList ==
  (Completed /\ carrier \in {"rogers", "bell"}) =>
    \A k \in Emitted :
      \A i \in 1..Len(ItemsOf(k)) :
        \A f \in {"features", "discounts", "promotions"} :
          InList(k, f, ItemsOf(k)[i]) <=> f = ListFor(ItemsOf(k)[i])

(***************************************************************************)
(* C26: for the container-id carrier (Bell) the price is never taken from  *)
(* the text of a struck-through price node: a struck-through "$X/mo"       *)
(* followed by a current "$Y/mo" gives price $Y and regular price $X.      *)
(***************************************************************************)
\* the container without its struck-through nodes
WithoutStruck(container) ==
  [container EXCEPT !.kids = SelectSeq(container.kids, LAMBDA e : ~IsS(e))]

\* the text of the struck-through node of the container of record k
StruckText(k) ==
  plan_tiles[normalized_plans[k].src].kids[
    FindKid(plan_tiles[normalized_plans[k].src].kids, IsS)].text

C26_PriceNotFromStruckThrough ==
  (Completed /\ carrier = "bell") =>
    \A k \in Emitted :
      (/\ FindKid(plan_tiles[normalized_plans[k].src].kids, IsS) # 0
       /\ DollarAmount(StruckText(k)) # NoText
       /\ bell_primary_price(WithoutStruck(plan_tiles[normalized_plans[k].src])) # Unknown)
      => /\ normalized_plans[k].price
              = bell_primary_price(WithoutStruck(plan_tiles[normalized_plans[k].src]))
         /\ normalized_plans[k].regular_price = DollarAmount(StruckText(k))

(***************************************************************************)
(* C23: for the attribute-convention carrier (Telus), when no node matches *)
(* the tile attribute convention but headings group into tiles, each such  *)
(* tile is normalized and emitted: plan_count equals the number of records *)
(* rendered and is non-zero whenever the fallback finds a tile with a      *)
(* valid name.                                                             *)
(***************************************************************************)
C23_HeadingTilesAreEmitted ==
  (Completed /\ ByHeadings) =>
    /\ result.stats.plan_count = RenderedCount(result.html)
    /\ (\E i \in Candidates : valid_name("telus", plan_tiles[i]))
         => result.stats.plan_count > 0

(***************************************************************************)
(* C25: for the ancestor-search carrier (Fido) the name of a record is the *)
(* text of the plan-name span from which the ancestor walk started, with   *)
(* the known suffix stripped; when the discovered ancestor contains        *)
(* several plan-name spans, each originating span yields a candidate that  *)
(* carries its own name.                                                   *)
(***************************************************************************)
\* the plan-name spans the ancestor walks of lines 1826-1853 start from, one
\* per candidate and in the order of the candidates
RECURSIVE fido_origin_spans(_)
fido_origin_spans(nodes) ==
  IF nodes = <<>> THEN <<>>
  ELSE (IF Head(nodes).tag \in {"div", "article", "section"}
           /\ FindKid(Head(nodes).kids, IsFidoPrice) # 0
        THEN SelectSeq(Head(nodes).kids,
                       LAMBDA e : IsTitleSpan(e) /\ fido_looks_like_plan(Strip(e.text)))
        ELSE <<>>)
       \o fido_origin_spans(Tail(nodes))

\* the name the originating span of candidate i gives
OriginName(i) == Strip(RemoveByopSuffix(fido_origin_spans(html_content)[i].text))

C25_NameFromOriginatingSpan ==
  (Completed /\ carrier = "fido") =>
    /\ Len(fido_origin_spans(html_content)) = Len(plan_tiles)
    /\ \A i \in Candidates : fido_plan_name(plan_tiles[i]) = OriginName(i)
    /\ \A k \in Emitted : normalized_plans[k].name = OriginName(normalized_plans[k].src)

(***************************************************************************)
(* C27: when candidate tiles are located but every one of them is dropped  *)
(* by the name checks during deduplication or normalization, the strip     *)
(* function returns the empty string as markup with plan_count = 0 (not    *)
(* the fallback document), and tiles_before_dedup still reports the number *)
(* of located tiles.                                                       *)
(***************************************************************************)
\* the candidates the strategy located in the input (for Telus the tiles of
\* the attribute convention, whatever Step 4 finds later)
Located ==
  IF carrier = "telus"
  THEN (IF SelectSeq(html_content, IsTelusTile) # <<>>
        THEN SelectSeq(html_content, IsTelusTile) ELSE SelectSeq(html_content, IsTelusCard))
  ELSE plan_tiles

AllDroppedByName ==
  /\ Completed /\ carrier # "none"
  /\ Located # <<>>
  /\ \A i \in 1..Len(Located) : ~valid_name(carrier, Located[i])

C27_AllDroppedGivesEmptyMarkup ==
  AllDroppedByName =>
    /\ result.html = build_final_html(<<>>)
    /\ MarkupLen(result.html) = 0
    /\ result.stats.plan_count = 0
    /\ result.stats.tiles_before_dedup = Len(Located)

(***************************************************************************)
(* C22: a request for a carrier identifier that has no registered strategy *)
(* returns a result (the cleaned document with zero records) rather than   *)
(* being skipped or raising: after the loop every requested carrier that   *)
(* is not registered has a result entry that is not an error.              *)
(***************************************************************************)
Requested == {pipeline.carriers[i] : i \in 1..Len(pipeline.carriers)}

C22_UnknownCarrierGetsResult ==
  pipeline.pc = "done" =>
    \A c \in Requested :
      ~IsRegistered(c) =>
        /\ HasKey(pipeline.all_results, c)
        /\ "error" \notin DOMAIN DictGet(pipeline.all_results, c)

(***************************************************************************)
(* C29: in run_complete_pipeline an exception raised while processing one  *)
(* carrier is recorded as a failed result (success = False) for that       *)
(* carrier and processing continues with the next carrier; after the loop  *)
(* every requested carrier that is in CARRIERS has exactly one result      *)
(* entry and every requested carrier that is not in CARRIERS has none.     *)
(***************************************************************************)
\* the number of entries of the dict d under key k
EntriesFor(d, k) == Cardinality({j \in 1..Len(d) : d[j].key = k})

\* the last time carrier c was processed, 0 if never
LastProcessed(c) ==
  IF \E j \in 1..Len(pipeline.processed) : pipeline.processed[j].carrier = c
  THEN CHOOSE j \in 1..Len(pipeline.processed) :
         /\ pipeline.processed[j].carrier = c
         /\ \A m \in (j + 1)..Len(pipeline.processed) : pipeline.processed[m].carrier # c
  ELSE 0

C29_EveryKnownCarrierHasOneResult ==
  pipeline.pc \in {"loop", "scraping", "llm", "done"} =>
    /\ \A c \in Requested :
         (LastProcessed(c) # 0 /\ pipeline.processed[LastProcessed(c)].raised)
           => /\ EntriesFor(pipeline.all_results, c) = 1
              /\ ~DictGet(pipeline.all_results, c).success
    /\ pipeline.pc = "done" =>
         /\ Len(pipeline.processed)
              = Cardinality({i \in 1..Len(pipeline.carriers) :
                               IsRegistered(pipeline.carriers[i])})
         /\ \A c \in Requested :
              EntriesFor(pipeline.all_results, c) = IF IsRegistered(c) THEN 1 ELSE 0

\* the first carrier processed raised and an unknown carrier was requested:
\* the loop went on and finished
C29_Witness ==
  /\ pipeline.pc = "done"
  /\ \E c \in Requested : ~IsRegistered(c)
  /\ Len(pipeline.processed) >= 1
  /\ pipeline.processed[1].raised
  /\ HasKey(pipeline.all_results, pipeline.processed[1].carrier)

(***************************************************************************)
(* C30: in _process_carrier the LLM-extraction step runs only after the    *)
(* scraping step succeeded or was skipped; if scraping fails the result is *)
(* returned with success = False and error 'Scraping failed' and contains  *)
(* no llm_extraction step; success = True is set only when scraping did    *)
(* not fail.                                                               *)
(***************************************************************************)
\* the position of the step in result['steps'], 0 if absent
StepAt(res, name) ==
  IF HasKey(res.steps, name)
  THEN CHOOSE j \in 1..Len(res.steps) : res.steps[j].key = name ELSE 0

ScrapingOk(res) ==
  HasKey(res.steps, "scraping") /\ DictGet(res.steps, "scraping").success

\* the results _process_carrier has returned, and the one it is building
ProcessResults ==
  {pipeline.all_results[j].value : j \in 1..Len(pipeline.all_results)}
  \cup (IF pipeline.pc \in {"scraping", "llm"} THEN {pipeline.result} ELSE {})

C30_LlmOnlyAfterScraping ==
  pipeline.pc \in {"loop", "scraping", "llm", "done"} =>
    /\ pipeline.pc = "llm" => ScrapingOk(pipeline.result)
    /\ \A res \in ProcessResults :
         "steps" \in DOMAIN res =>
           /\ HasKey(res.steps, "llm_extraction")
                => ScrapingOk(res) /\ StepAt(res, "scraping") < StepAt(res, "llm_extraction")
           /\ (HasKey(res.steps, "scraping") /\ ~ScrapingOk(res))
                => /\ ~res.success
                   /\ "error" \in DOMAIN res /\ res.error = "Scraping failed"
                   /\ ~HasKey(res.steps, "llm_extraction")
           /\ res.success => ScrapingOk(res)

\* one carrier returned after a failed scraping, another went through the
\* LLM step
C30_Witness ==
  /\ pipeline.pc = "done"
  /\ \E res \in ProcessResults :
       "steps" \in DOMAIN res /\ HasKey(res.steps, "scraping") /\ ~ScrapingOk(res)
  /\ \E res \in ProcessResults :
       "steps" \in DOMAIN res /\ HasKey(res.steps, "llm_extraction") /\ res.success

(***************************************************************************)
(* C28: _call_with_retries always terminates after at most 6 API calls (5  *)
(* guarded attempts plus one final unguarded attempt): it returns the      *)
(* first successful response without further calls, retries only after a   *)
(* rate-limit error or an API error with a 5xx status, and re-raises any   *)
(* other API error immediately.                                            *)
(***************************************************************************)
Finished == extractor.pc \in {"returned", "raised"}

\* what holds of the calls made so far
RetriesAreBounded ==
  extractor.pc # "idle" =>
    /\ Len(extractor.calls) <= max_retries + 1
    /\ extractor.pc = "attempt" => Len(extractor.calls) = extractor.attempt - 1
    \* every call but the last was followed by a sleep and a retry
    /\ \A j \in 1..(Len(extractor.calls) - (IF Finished THEN 1 ELSE 0)) :
         /\ extractor.calls[j].kind = "RateLimitError"
            \/ /\ extractor.calls[j].kind = "APIError"
               /\ extractor.calls[j].status_code \in 500..599
         /\ j <= Len(extractor.slept)
    /\ extractor.pc = "returned" =>
         extractor.calls[Len(extractor.calls)].kind = "response"
    /\ extractor.pc = "raised" =>
         /\ extractor.calls[Len(extractor.calls)].kind # "response"
         /\ \/ Len(extractor.calls) = max_retries + 1
            \/ extractor.calls[Len(extractor.calls)].kind = "Exception"
            \/ /\ extractor.calls[Len(extractor.calls)].kind = "APIError"
               /\ extractor.calls[Len(extractor.calls)].status_code \notin 500..599

====
